---- MODULE Spec2Model ----
(***************************************************************************)
(* ZTL maps: the restriction-evaluation and day-range parsing engine.      *)
(*                                                                         *)
(* A Python str is a sequence of one-character strings, so that title(),   *)
(* capitalize(), split(), startswith() and list.index() are computed the   *)
(* way the interpreter computes them.  A call that raises is an outcome    *)
(* record with raised /= "none".                                           *)
(***************************************************************************)
EXTENDS Integers, Sequences, FiniteSets, TLC

VARIABLES
    day_range,            \* SpecDays: the day-range text handed to an expander
    call,                 \* SpecDays: which expander was applied ("none" before)
    result,               \* SpecDays: the outcome of that call
    restriction,          \* SpecRestriction: the outcome of Restriction(days, start, end)
    dt,                   \* SpecRestriction: the instant of the last is_active_at call
    active,               \* SpecRestriction: what that call returned
    restrictions,         \* Spec: Zone.restrictions, the zone's list
    zone_dt,              \* Spec: the instant of the last Zone.is_active_at call
    zone_active,          \* Spec: what that call returned
    constructed,          \* Spec: the restrictions argument of Zone(...)
    added,                \* Spec: the arguments of the add_restriction calls so far
    parse_call,           \* SpecParse: which parser was applied ("none" before)
    parse_args,           \* SpecParse: the texts handed to it
    parse_result,         \* SpecParse: the outcome of that call
    city,                 \* SpecPersist: the City handed to save_city
    file,                 \* SpecPersist: the JSON document on disk (NoCall before)
    loaded_city,          \* SpecPersist: what load_city returned since the last save
    zone,                 \* SpecVisualize: the Zone handed to is_currently_active
    current_time,         \* SpecVisualize: the instant of the last call
    currently_active,     \* SpecVisualize: what that call returned
    days_lists,           \* SpecObjects: the list objects holding day names, by identity
    restrictions_lists,   \* SpecObjects: the list objects holding Restrictions
    restriction_objects,  \* SpecObjects: the Restriction objects, by identity
    zone_objects,         \* SpecObjects: the Zone objects, by identity
    queried,              \* SpecQueries: the Zone whose methods are called
    remembered,           \* SpecQueries: one earlier is_active_at call and its result
    last_answer,          \* SpecQueries: the latest is_active_at call and its result
    city_constructed,     \* SpecCity: the zones argument of City(...)
    city_zones,           \* SpecCity: City.zones, the city's list
    city_added,           \* SpecCity: the arguments of the add_zone calls so far
    lookup,               \* SpecCity: the last get_zone_by_id call and what it returned
    stored,               \* SpecApi: the city file load_city reads (NoCall when there is none)
    clock,                \* SpecApi: the readings datetime.now() returns, in call order
    response,             \* SpecApi: the last request and its outcome
    directory,            \* SpecDirectory: the JSON files of the data directory, in glob order
    all_cities,           \* SpecDirectory: what load_all_cities returned (NoCall before)
    ztl_coordinates,      \* SpecTurin: TurinScraper.ztl_coordinates, the items of the dict in order
    turin_zones           \* SpecTurin: what parse_zones returned (NoCall before)

dayVars == <<day_range, call, result>>
restrVars == <<restriction, dt, active>>
zoneVars == <<restrictions, zone_dt, zone_active, constructed, added>>
parseVars == <<parse_call, parse_args, parse_result>>
persistVars == <<city, file, loaded_city>>
visualizeVars == <<zone, current_time, currently_active>>
objectVars == <<days_lists, restrictions_lists, restriction_objects, zone_objects>>
queryVars == <<queried, remembered, last_answer>>
cityVars == <<city_constructed, city_zones, city_added, lookup>>
apiVars == <<stored, clock, response>>
directoryVars == <<directory, all_cities>>
turinVars == <<ztl_coordinates, turin_zones>>
\* the variables of the specifications the first six leave alone
otherVars == <<objectVars, queryVars, cityVars, apiVars, directoryVars, turinVars>>
coreVars == <<dayVars, restrVars, zoneVars, parseVars, persistVars, visualizeVars>>
\* all the variables but one group's
besidesObject == <<coreVars, queryVars, cityVars, apiVars, directoryVars, turinVars>>
besidesQuery == <<coreVars, objectVars, cityVars, apiVars, directoryVars, turinVars>>
besidesCity == <<coreVars, objectVars, queryVars, apiVars, directoryVars, turinVars>>
besidesApi == <<coreVars, objectVars, queryVars, cityVars, directoryVars, turinVars>>
besidesDirectory == <<coreVars, objectVars, queryVars, cityVars, apiVars, turinVars>>
besidesTurin == <<coreVars, objectVars, queryVars, cityVars, apiVars, directoryVars>>
vars == <<day_range, call, result, restriction, dt, active,
          restrictions, zone_dt, zone_active, constructed, added,
          parse_call, parse_args, parse_result,
          city, file, loaded_city,
          zone, current_time, currently_active,
          days_lists, restrictions_lists, restriction_objects, zone_objects,
          queried, remembered, last_answer,
          city_constructed, city_zones, city_added, lookup,
          stored, clock, response,
          directory, all_cities,
          ztl_coordinates, turin_zones>>

None == "None"

\* an argument or return value of the last call: <<>> before any call
NoCall == <<>>
Of(v) == <<v>>

\* an optional parameter left at its default None; Of(v) when v is passed
NoArg == <<>>

-----------------------------------------------------------------------------
(* Python str primitives *)

LowerLetters ==
    <<"a","b","c","d","e","f","g","h","i","j","k","l","m",
      "n","o","p","q","r","s","t","u","v","w","x","y","z">>

UpperLetters ==
    <<"A","B","C","D","E","F","G","H","I","J","K","L","M",
      "N","O","P","Q","R","S","T","U","V","W","X","Y","Z">>

Digits == <<"0","1","2","3","4","5","6","7","8","9">>

Range(seq) == {seq[i] : i \in DOMAIN seq}

IsLower(c) == c \in Range(LowerLetters)
IsUpper(c) == c \in Range(UpperLetters)
IsDigit(c) == c \in Range(Digits)

\* the regular expression class \w
IsWordChar(c) == IsLower(c) \/ IsUpper(c) \/ IsDigit(c) \/ c = "_"

PosIn(seq, c) == CHOOSE i \in DOMAIN seq : seq[i] = c

ToUpper(c) == IF IsLower(c) THEN UpperLetters[PosIn(LowerLetters, c)] ELSE c
ToLower(c) == IF IsUpper(c) THEN LowerLetters[PosIn(UpperLetters, c)] ELSE c

\* str.lower()
PyLower(s) == [i \in DOMAIN s |-> ToLower(s[i])]

\* str.upper()
PyUpper(s) == [i \in DOMAIN s |-> ToUpper(s[i])]

\* str.capitalize(): first character upper-cased, the rest lower-cased
PyCapitalize(s) == [i \in DOMAIN s |-> IF i = 1 THEN ToUpper(s[i]) ELSE ToLower(s[i])]

\* str.title(): a cased character is upper-cased when the character before it
\* is uncased (or it is the first), lower-cased otherwise
PyTitle(s) ==
    [i \in DOMAIN s |->
        LET prev_cased == i > 1 /\ (IsLower(s[i-1]) \/ IsUpper(s[i-1]))
        IN  IF prev_cased THEN ToLower(s[i]) ELSE ToUpper(s[i])]

\* str.startswith(prefix)
PyStartsWith(s, prefix) ==
    /\ Len(prefix) <= Len(s)
    /\ SubSeq(s, 1, Len(prefix)) = prefix

\* sep in s, for a one-character sep
PyContains(s, c) == \E i \in DOMAIN s : s[i] = c

\* str.split(sep) for a one-character sep: the list of the fields between seps
RECURSIVE SplitFrom(_, _, _, _)
SplitFrom(s, sep, i, field) ==
    IF i > Len(s) THEN <<field>>
    ELSE IF s[i] = sep THEN <<field>> \o SplitFrom(s, sep, i + 1, <<>>)
    ELSE SplitFrom(s, sep, i + 1, Append(field, s[i]))

PySplit(s, sep) == SplitFrom(s, sep, 1, <<>>)

\* list.index(x): the 0-based position of the first element equal to x, or -1
\* where Python raises ValueError
RECURSIVE IndexFrom(_, _, _)
IndexFrom(list, x, i) ==
    IF i > Len(list) THEN -1
    ELSE IF list[i] = x THEN i - 1
    ELSE IndexFrom(list, x, i + 1)

PyIndex(list, x) == IndexFrom(list, x, 1)

\* list[lo:hi] for 0 <= lo and 0 <= hi
PySlice(list, lo, hi) ==
    LET top == IF hi > Len(list) THEN Len(list) ELSE hi
    IN  IF lo >= top THEN <<>> ELSE SubSeq(list, lo + 1, top)

\* the outcome of a call
Returns(v) == [raised |-> "none", value |-> v]
Raises(e) == [raised |-> e, value |-> None]

-----------------------------------------------------------------------------
(* The weekday names *)

Monday == <<"M","o","n","d","a","y">>
Tuesday == <<"T","u","e","s","d","a","y">>
Wednesday == <<"W","e","d","n","e","s","d","a","y">>
Thursday == <<"T","h","u","r","s","d","a","y">>
Friday == <<"F","r","i","d","a","y">>
Saturday == <<"S","a","t","u","r","d","a","y">>
Sunday == <<"S","u","n","d","a","y">>

day_order == <<Monday, Tuesday, Wednesday, Thursday, Friday, Saturday, Sunday>>

Weekdays == <<Monday, Tuesday, Wednesday, Thursday, Friday>>

EveryDay == <<"E","v","e","r","y"," ","d","a","y">>
AllDaysLower == <<"a","l","l"," ","d","a","y","s">>

-----------------------------------------------------------------------------
(* scrapers/utils.py: expand_day_range *)

\* the lookup the scrapers' own expanders use: day_order.index(token)
ScanDayOrder_exact_match(token, i, index) == PyIndex(day_order, token)

\* a loop that stops at the first day that starts with the token
ScanDayOrder_first_match(token, i, index) ==
    IF \E k \in DOMAIN day_order : PyStartsWith(day_order[k], token)
    THEN (CHOOSE k \in DOMAIN day_order :
             /\ PyStartsWith(day_order[k], token)
             /\ \A j \in 1..(k - 1) : ~PyStartsWith(day_order[j], token)) - 1
    ELSE index

\* the loop over enumerate(day_order): the last day that starts with the
\* token wins; -1 when none does
RECURSIVE ScanDayOrder(_, _, _)
ScanDayOrder(token, i, index) ==
    IF i > Len(day_order) THEN index
    ELSE ScanDayOrder(token, i + 1,
                      IF PyStartsWith(day_order[i], token) THEN i - 1 ELSE index)

\* result.append(day_order[i % 7]) for i in range(start_index, end_index + 1)
RECURSIVE RangeDays(_, _)
RangeDays(i, end_index) ==
    IF i > end_index THEN <<>>
    ELSE <<day_order[(i % 7) + 1]>> \o RangeDays(i + 1, end_index)

\* without the end_index += 7 of a range that wraps round the week
expand_day_range_no_wrap(start_day, end_day) ==
    LET start_index == ScanDayOrder(PyTitle(start_day), 1, -1)
        end_index == ScanDayOrder(PyTitle(end_day), 1, -1)
    IN  IF start_index = -1 \/ end_index = -1 THEN Raises("ValueError")
        ELSE Returns(RangeDays(start_index, end_index))

\* with the scrapers' fallback to the working week in place of the raise
expand_day_range_weekdays_fallback(start_day, end_day) ==
    LET start_index == ScanDayOrder(PyTitle(start_day), 1, -1)
        end_index == ScanDayOrder(PyTitle(end_day), 1, -1)
    IN  IF start_index = -1 \/ end_index = -1 THEN Returns(Weekdays)
        ELSE Returns(RangeDays(start_index,
                               IF end_index < start_index THEN end_index + 7
                               ELSE end_index))

expand_day_range(start_day, end_day) ==
    LET start_index == ScanDayOrder(PyTitle(start_day), 1, -1)
        end_index == ScanDayOrder(PyTitle(end_day), 1, -1)
    IN  IF start_index = -1 \/ end_index = -1 THEN Raises("ValueError")
        ELSE Returns(RangeDays(start_index,
                               IF end_index < start_index THEN end_index + 7
                               ELSE end_index))

-----------------------------------------------------------------------------
(* scrapers/city_specific: the scrapers' own expanders *)

\* start_day, end_day = day_range.split('-') raises ValueError unless the
\* split has exactly two fields; in Naples and Turin it stands before the try
Naples_expand_day_range(range) ==
    IF PyContains(range, "-") THEN
        LET fields == PySplit(range, "-") IN
        IF Len(fields) /= 2 THEN Raises("ValueError")
        ELSE LET start_index == PyIndex(day_order, fields[1])
                 end_index == PyIndex(day_order, fields[2])
             IN  IF start_index = -1 \/ end_index = -1 THEN Returns(Weekdays)
                 ELSE Returns(PySlice(day_order, start_index, end_index + 1))
    ELSE IF PyIndex(day_order, range) /= -1 THEN Returns(<<range>>)
    ELSE Returns(Weekdays)

Turin_expand_day_range(range) ==
    IF PyContains(range, "-") THEN
        LET fields == PySplit(range, "-") IN
        IF Len(fields) /= 2 THEN Raises("ValueError")
        ELSE LET start_index == PyIndex(day_order, fields[1])
                 end_index == PyIndex(day_order, fields[2])
             IN  IF start_index = -1 \/ end_index = -1 THEN Returns(Weekdays)
                 ELSE Returns(PySlice(day_order, start_index, end_index + 1))
    ELSE IF range = EveryDay THEN Returns(day_order)
    ELSE Returns(Weekdays)

Florence_expand_day_range(start_day, end_day) ==
    LET start_index == PyIndex(day_order, start_day)
        end_index == PyIndex(day_order, end_day)
    IN  IF start_index = -1 \/ end_index = -1 THEN Raises("ValueError")
        ELSE Returns(PySlice(day_order, start_index, end_index + 1))

\* re.match(r'(\w+)(?:-(\w+))?', day_range): the longest run of \w at the
\* start, then, when a '-' and at least one \w follow, the longest run there
RECURSIVE WordRunEnd(_, _)
WordRunEnd(s, i) ==
    IF i <= Len(s) /\ IsWordChar(s[i]) THEN WordRunEnd(s, i + 1) ELSE i

Milan_parse_day_range(range) ==
    IF PyLower(range) = AllDaysLower THEN Returns(day_order)
    ELSE
    LET e1 == WordRunEnd(range, 1) IN
    IF e1 = 1 THEN Returns(<<>>)
    ELSE
    LET start_day == SubSeq(range, 1, e1 - 1)
        has_end == /\ e1 <= Len(range)
                   /\ range[e1] = "-"
                   /\ WordRunEnd(range, e1 + 1) > e1 + 1
        end_day == IF has_end THEN SubSeq(range, e1 + 1, WordRunEnd(range, e1 + 1) - 1)
                   ELSE <<>>
        start_day_cap == PyCapitalize(start_day)
        end_day_cap == PyCapitalize(end_day)
        start_idx == PyIndex(day_order, start_day_cap)
        end_idx == PyIndex(day_order, end_day_cap)
    IN  IF ~has_end THEN
            IF start_idx /= -1 THEN Returns(<<start_day_cap>>) ELSE Returns(<<>>)
        ELSE IF start_idx = -1 \/ end_idx = -1 THEN Returns(<<>>)
        ELSE IF start_idx <= end_idx THEN Returns(PySlice(day_order, start_idx, end_idx + 1))
        ELSE Returns(PySlice(day_order, start_idx, Len(day_order))
                     \o PySlice(day_order, 0, end_idx + 1))

-----------------------------------------------------------------------------
(* models/restriction.py *)

Whitespace == {" "}

\* str.strip(): the text without its leading and trailing whitespace
RECURSIVE LStrip(_)
LStrip(s) == IF s /= <<>> /\ Head(s) \in Whitespace THEN LStrip(Tail(s)) ELSE s

RECURSIVE RStrip(_)
RStrip(s) ==
    IF s /= <<>> /\ s[Len(s)] \in Whitespace THEN RStrip(SubSeq(s, 1, Len(s) - 1)) ELSE s

PyStrip(s) == LStrip(RStrip(s))

\* the digits of an int literal: digits, single underscores only between digits
IsDigitRun(s) ==
    /\ s /= <<>>
    /\ IsDigit(s[1])
    /\ IsDigit(s[Len(s)])
    /\ \A i \in DOMAIN s : IsDigit(s[i]) \/ s[i] = "_"
    /\ \A i \in 1..(Len(s) - 1) : ~(s[i] = "_" /\ s[i+1] = "_")

RECURSIVE DigitsValue(_, _)
DigitsValue(s, acc) ==
    IF s = <<>> THEN acc
    ELSE IF Head(s) = "_" THEN DigitsValue(Tail(s), acc)
    ELSE DigitsValue(Tail(s), 10 * acc + (PosIn(Digits, Head(s)) - 1))

\* int(text): surrounding whitespace, an optional sign, then the digits;
\* anything else raises ValueError
SignedInt(sign, body) ==
    IF ~IsDigitRun(body) THEN Raises("ValueError")
    ELSE IF sign = "-" THEN Returns(0 - DigitsValue(body, 0))
    ELSE Returns(DigitsValue(body, 0))

StrippedInt(s) ==
    IF s /= <<>> /\ s[1] \in {"+", "-"} THEN SignedInt(s[1], Tail(s))
    ELSE SignedInt("+", s)

PyInt(text) == StrippedInt(PyStrip(text))

\* datetime.time(hours, minutes): ValueError outside 0..23 and 0..59
PyTime(hours, minutes) ==
    IF hours \in 0..23 /\ minutes \in 0..59
    THEN Returns([hour |-> hours, minute |-> minutes, second |-> 0, microsecond |-> 0])
    ELSE Raises("ValueError")

\* hours, minutes = map(int, time_str.split(':')); return time(hours, minutes)
TimeOfInts(hours, minutes) ==
    IF hours.raised /= "none" \/ minutes.raised /= "none" THEN Raises("ValueError")
    ELSE PyTime(hours.value, minutes.value)

TimeOfFields(fields) ==
    IF Len(fields) /= 2 THEN Raises("ValueError")
    ELSE TimeOfInts(PyInt(fields[1]), PyInt(fields[2]))

Restriction_parse_time(time_str) == TimeOfFields(PySplit(time_str, ":"))

\* Restriction(days, start_time, end_time, vehicle_types); the last line is
\* self.vehicle_types = vehicle_types or []
RestrictionOfTimes(days, start, end, vehicle_types) ==
    IF start.raised /= "none" THEN start
    ELSE IF end.raised /= "none" THEN end
    ELSE Returns([days |-> days,
                  start_time |-> start.value,
                  end_time |-> end.value,
                  vehicle_types |-> IF vehicle_types \in {NoArg, Of(<<>>)} THEN <<>>
                                    ELSE vehicle_types[1]])

Restriction_init(days, start_time, end_time, vehicle_types) ==
    RestrictionOfTimes(days, Restriction_parse_time(start_time),
                       Restriction_parse_time(end_time), vehicle_types)

\* datetime.time's ordering: (hour, minute, second, microsecond), lexicographic
TimeLE(a, b) ==
    \/ a.hour < b.hour
    \/ /\ a.hour = b.hour
       /\ \/ a.minute < b.minute
          \/ /\ a.minute = b.minute
             /\ \/ a.second < b.second
                \/ /\ a.second = b.second
                   /\ a.microsecond <= b.microsecond

\* dt.time()
TimeOf(instant) ==
    [hour |-> instant.hour, minute |-> instant.minute,
     second |-> instant.second, microsecond |-> instant.microsecond]

\* dt.strftime('%A'), weekday 0 being Monday
DayNameOf(instant) == day_order[instant.weekday + 1]

\* with an exclusive end bound
Restriction_is_active_at_exclusive_end(self, instant) ==
    IF DayNameOf(instant) \notin Range(self.days) THEN FALSE
    ELSE /\ TimeLE(self.start_time, TimeOf(instant))
         /\ TimeLE(TimeOf(instant), self.end_time)
         /\ TimeOf(instant) /= self.end_time

Restriction_is_active_at(self, instant) ==
    IF DayNameOf(instant) \notin Range(self.days) THEN FALSE
    ELSE /\ TimeLE(self.start_time, TimeOf(instant))
         /\ TimeLE(TimeOf(instant), self.end_time)

-----------------------------------------------------------------------------
(* models/zone.py *)

\* any(restriction.is_active_at(datetime) for restriction in self.restrictions)
RECURSIVE AnyActive(_, _, _)
AnyActive(list, instant, i) ==
    IF i > Len(list) THEN FALSE
    ELSE IF Restriction_is_active_at(list[i], instant) THEN TRUE
    ELSE AnyActive(list, instant, i + 1)

\* asking the first restriction only
Zone_is_active_at_first_only(list, instant) ==
    IF list = <<>> THEN FALSE ELSE Restriction_is_active_at(list[1], instant)

\* a zone that, once a query was answered False, answers False
Zone_is_active_at_sticky(list, instant) ==
    IF last_answer /= NoCall /\ ~last_answer[1].result THEN FALSE
    ELSE IF list = <<>> THEN FALSE ELSE AnyActive(list, instant, 1)

Zone_is_active_at(list, instant) ==
    IF list = <<>> THEN FALSE ELSE AnyActive(list, instant, 1)

\* Zone(id, name, city, boundaries, restrictions): the list the zone starts
\* with, self.restrictions = restrictions or []
Zone_init(restrictions_arg) ==
    IF restrictions_arg \in {NoArg, Of(<<>>)} THEN <<>> ELSE restrictions_arg[1]

\* the new restriction taking the place of the last one of the list
Zone_add_restriction_replacing(list, r) ==
    IF list = <<>> THEN <<r>> ELSE [list EXCEPT ![Len(list)] = r]

\* putting the restriction at the front of the list
Zone_add_restriction_at_front(list, r) == <<r>> \o list

\* self.restrictions.append(restriction)
Zone_add_restriction(list, r) == Append(list, r)

-----------------------------------------------------------------------------
(* scrapers: the schedule-text parsers *)

\* str.replace(old, new) for a one-character old
RECURSIVE PyReplace(_, _, _)
PyReplace(s, old, new) ==
    IF s = <<>> THEN <<>>
    ELSE (IF Head(s) = old THEN new ELSE <<Head(s)>>) \o PyReplace(Tail(s), old, new)

\* str.rstrip(chars) for a one-character chars
RECURSIVE PyRStripChar(_, _)
PyRStripChar(s, c) ==
    IF s /= <<>> /\ s[Len(s)] = c THEN PyRStripChar(SubSeq(s, 1, Len(s) - 1), c) ELSE s

\* str.zfill(width) of a string of digits
RECURSIVE PyZFill(_, _)
PyZFill(s, width) == IF Len(s) >= width THEN s ELSE PyZFill(<<"0">> \o s, width)

\* f'{a}:{b}'
Colon(a, b) == a \o <<":">> \o b

\* the character at 1-based position i, "" past either end
CharAt(s, i) == IF i \in DOMAIN s THEN s[i] ELSE ""

IsLetter(c) == IsLower(c) \/ IsUpper(c)

\* [A-Za-z]+ from position i: the position after the run of letters
RECURSIVE LetterRunEnd(_, _)
LetterRunEnd(s, i) == IF IsLetter(CharAt(s, i)) THEN LetterRunEnd(s, i + 1) ELSE i

\* \s+ from position i: the position after the run of whitespace
RECURSIVE SpaceRunEnd(_, _)
SpaceRunEnd(s, i) == IF CharAt(s, i) \in Whitespace THEN SpaceRunEnd(s, i + 1) ELSE i

\* (\d{1,2}) before a ':' at position i: the number of digits, 0 for no match
ClockDigits(s, i) ==
    IF IsDigit(CharAt(s, i)) /\ IsDigit(CharAt(s, i + 1)) /\ CharAt(s, i + 2) = ":" THEN 2
    ELSE IF IsDigit(CharAt(s, i)) /\ CharAt(s, i + 1) = ":" THEN 1
    ELSE 0

ClockOfDigits(s, i, n) ==
    IF n = 0 \/ ~IsDigit(CharAt(s, i + n + 1)) \/ ~IsDigit(CharAt(s, i + n + 2)) THEN <<>>
    ELSE <<SubSeq(s, i, i + n - 1), SubSeq(s, i + n + 1, i + n + 2), i + n + 3>>

\* (\d{1,2}):(\d{2}) at position i: <<hour, minute, position after>>, or <<>>
\* when it does not match there
ClockAt(s, i) == ClockOfDigits(s, i, ClockDigits(s, i))

\* a match's groups behind one more group, <<>> when there is no match
Prefixed(group, groups) == IF groups = <<>> THEN <<>> ELSE <<group>> \o groups

\* the groups of the clocks a and b
TimesOf(a, b) == IF b = <<>> THEN <<>> ELSE <<a[1], a[2], b[1], b[2]>>

\* -(\d{1,2}):(\d{2}) behind the clock a
TimesAfter(s, a) ==
    IF a = <<>> THEN <<>>
    ELSE IF CharAt(s, a[3]) /= "-" THEN <<>>
    ELSE TimesOf(a, ClockAt(s, a[3] + 1))

\* (\d{1,2}):(\d{2})-(\d{1,2}):(\d{2}) at position i: its four groups, or <<>>
TimesAt(s, i) == TimesAfter(s, ClockAt(s, i))

\* \s+ and the times behind the letters that end before position e
SingleDayAfter(s, i, e) ==
    IF e = i \/ SpaceRunEnd(s, e) = e THEN <<>>
    ELSE Prefixed(SubSeq(s, i, e - 1), TimesAt(s, SpaceRunEnd(s, e)))

\* ([A-Za-z]+)\s+(\d{1,2}):(\d{2})-(\d{1,2}):(\d{2}) at position i
SingleDayAt(s, i) == SingleDayAfter(s, i, LetterRunEnd(s, i))

\* -([A-Za-z]+)\s+ and the times behind the letters that end before position e
DayRangeAfter(s, i, e) ==
    IF e = i \/ CharAt(s, e) /= "-" THEN <<>>
    ELSE Prefixed(SubSeq(s, i, e - 1), SingleDayAt(s, e + 1))

\* ([A-Za-z]+)-([A-Za-z]+)\s+(\d{1,2}):(\d{2})-(\d{1,2}):(\d{2}) at position i
DayRangeAt(s, i) == DayRangeAfter(s, i, LetterRunEnd(s, i))

\* re.search tries the positions from the left: the leftmost of those where
\* the pattern matches
Leftmost(hits) == CHOOSE i \in hits : \A j \in hits : i <= j

\* the groups of the leftmost match among the matches at each position
FirstMatch(matches) ==
    IF \A i \in DOMAIN matches : matches[i] = <<>> THEN <<>>
    ELSE matches[Leftmost({i \in DOMAIN matches : matches[i] /= <<>>})]

\* re.search of the day-range pattern: its groups, or <<>>
SearchDayRange(s) == FirstMatch([i \in 1..Len(s) |-> DayRangeAt(s, i)])

\* re.search of the single-day pattern
SearchSingleDay(s) == FirstMatch([i \in 1..Len(s) |-> SingleDayAt(s, i)])

\* re.search of the time-only pattern
SearchTimes(s) == FirstMatch([i \in 1..Len(s) |-> TimesAt(s, i)])

\* results.append((days, f'{start_hour.zfill(2)}:{start_min}', ...)) with the
\* days of expand_day_range, whose raise leaves the function
ExtractDayRange(m, days) ==
    IF days.raised /= "none" THEN days
    ELSE Returns(<< <<Of(days.value),
                      Colon(PyZFill(m[3], 2), m[4]),
                      Colon(PyZFill(m[5], 2), m[6])>> >>)

\* one pass of the loop body of utils.extract_time_ranges: the tuples
\* (days, start_time, end_time) it appends, days being Of(list) or NoArg for
\* None; the first of the three patterns that matches decides
ExtractEntry(day_range_match, single_day_match, time_only_match) ==
    IF day_range_match /= <<>> THEN
        ExtractDayRange(day_range_match,
                        expand_day_range(day_range_match[1], day_range_match[2]))
    ELSE IF single_day_match /= <<>> THEN
        Returns(<< <<Of(<<single_day_match[1]>>),
                     Colon(PyZFill(single_day_match[2], 2), single_day_match[3]),
                     Colon(PyZFill(single_day_match[4], 2), single_day_match[5])>> >>)
    ELSE IF time_only_match /= <<>> THEN
        Returns(<< <<NoArg,
                     Colon(PyZFill(time_only_match[1], 2), time_only_match[2]),
                     Colon(PyZFill(time_only_match[3], 2), time_only_match[4])>> >>)
    ELSE Returns(<<>>)

\* the three re.search calls on time_range
ExtractMatches(time_range) ==
    ExtractEntry(SearchDayRange(time_range), SearchSingleDay(time_range),
                 SearchTimes(time_range))

\* the loop over the entries' outcomes: what the entries append, in order,
\* up to the first entry that raises
RECURSIVE ExtractFrom(_, _, _)
ExtractFrom(entries, k, results) ==
    IF k > Len(entries) THEN Returns(results)
    ELSE IF entries[k].raised /= "none" THEN entries[k]
    ELSE ExtractFrom(entries, k + 1, results \o entries[k].value)

\* for time_range in text.split(','): time_range = time_range.strip(); ...
ExtractEntries(time_ranges) ==
    [k \in DOMAIN time_ranges |-> ExtractMatches(PyStrip(time_ranges[k]))]

extract_time_ranges(text) == ExtractFrom(ExtractEntries(PySplit(text, ",")), 1, <<>>)

TwentyFourHours == <<"2","4"," ","h","o","u","r","s">>

Bologna_expand_day_range(start_day, end_day) ==
    LET start_idx == PyIndex(day_order, start_day)
        end_idx == PyIndex(day_order, end_day)
    IN  IF start_idx = -1 \/ end_idx = -1 THEN
            IF start_day = end_day THEN Returns(<<start_day>>)
            ELSE Returns(<<start_day, end_day>>)
        ELSE IF start_idx <= end_idx THEN Returns(PySlice(day_order, start_idx, end_idx + 1))
        ELSE Returns(PySlice(day_order, start_idx, Len(day_order))
                     \o PySlice(day_order, 0, end_idx + 1))

\* return [restriction]
InList(r) == IF r.raised /= "none" THEN r ELSE Returns(<<r.value>>)

\* the days of BolognaScraper._parse_restriction; day_fields is
\* day_range.split('-'), unpacked into two targets
BolognaDays(day_range_arg, day_fields) ==
    IF PyLower(day_range_arg) = AllDaysLower THEN Returns(day_order)
    ELSE IF PyContains(day_range_arg, "-") THEN
        IF Len(day_fields) /= 2 THEN Raises("ValueError")
        ELSE Bologna_expand_day_range(PyStrip(day_fields[1]), PyStrip(day_fields[2]))
    ELSE Returns(<<PyStrip(day_range_arg)>>)

\* its start and end time; time_fields is time_range.split('-'), unpacked
\* into two targets
BolognaTimes(whole_day, time_fields) ==
    IF whole_day THEN Returns(<< <<"0",":","0","0">>, <<"2","3",":","5","9">> >>)
    ELSE IF Len(time_fields) /= 2 THEN Raises("ValueError")
    ELSE Returns(time_fields)

\* Restriction(days=days, start_time=start_time, end_time=end_time)
BolognaRestriction(days, times) ==
    IF days.raised /= "none" THEN days
    ELSE IF times.raised /= "none" THEN times
    ELSE InList(Restriction_init(days.value, times.value[1], times.value[2], NoArg))

\* with the '24 hours' test made on the text as written, not lower-cased
Bologna_parse_restriction_case_sensitive(day_range_arg, time_range) ==
    BolognaRestriction(BolognaDays(day_range_arg, PySplit(day_range_arg, "-")),
                       BolognaTimes(time_range = TwentyFourHours,
                                    PySplit(time_range, "-")))

\* BolognaScraper._parse_restriction(day_range, time_range): the two
\* two-target unpackings of split('-') and the constructor can raise
Bologna_parse_restriction(day_range_arg, time_range) ==
    BolognaRestriction(BolognaDays(day_range_arg, PySplit(day_range_arg, "-")),
                       BolognaTimes(PyLower(time_range) = TwentyFourHours,
                                    PySplit(time_range, "-")))

\* hour, minute = t.split('.'); t = f'{hour}:{minute}'
FlorenceColon(fields) ==
    IF Len(fields) /= 2 THEN Raises("ValueError")
    ELSE Returns(Colon(fields[1], fields[2]))

\* if '.' in t: ...
FlorenceDotted(t) ==
    IF ~PyContains(t, ".") THEN Returns(t) ELSE FlorenceColon(PySplit(t, "."))

\* the days of FlorenceScraper._parse_restriction; day_fields is
\* day_range.split('-'), unpacked into two targets
FlorenceDays(day_range_arg, day_fields) ==
    IF PyContains(day_range_arg, "-") THEN
        IF Len(day_fields) /= 2 THEN Raises("ValueError")
        ELSE Florence_expand_day_range(day_fields[1], day_fields[2])
    ELSE Returns(<<day_range_arg>>)

\* Restriction(days=days, start_time=start_time, end_time=end_time)
FlorenceRestriction(days, start_time, end_time) ==
    IF start_time.raised /= "none" THEN start_time
    ELSE IF end_time.raised /= "none" THEN end_time
    ELSE InList(Restriction_init(days.value, start_time.value, end_time.value, NoArg))

\* if '-' in time_range: ...; return []; time_fields is the cleaned
\* time_range.split('-'), unpacked into two targets
FlorenceTimes(days, time_range, time_fields) ==
    IF days.raised /= "none" THEN days
    ELSE IF ~PyContains(time_range, "-") THEN Returns(<<>>)
    ELSE IF Len(time_fields) /= 2 THEN Raises("ValueError")
    ELSE FlorenceRestriction(days,
             FlorenceDotted(PyReplace(PyStrip(time_fields[1]), " ", <<>>)),
             FlorenceDotted(PyReplace(PyStrip(time_fields[2]), " ", <<>>)))

\* without time_range.replace(',', '.')
Florence_parse_restriction_no_comma(day_range_arg, time_range) ==
    FlorenceTimes(FlorenceDays(day_range_arg, PySplit(day_range_arg, "-")),
                  time_range,
                  PySplit(PyStrip(PyRStripChar(time_range, ".")), "-"))

\* FlorenceScraper._parse_restriction(day_range, time_range)
Florence_parse_restriction(day_range_arg, time_range) ==
    FlorenceTimes(FlorenceDays(day_range_arg, PySplit(day_range_arg, "-")),
                  time_range,
                  PySplit(PyReplace(PyStrip(PyRStripChar(time_range, ".")), ",", <<".">>),
                          "-"))

\* hours behind the whitespace that ends before position w
HoursWordAfter(s, i, w) ==
    IF /\ CharAt(s, i) = "2"
       /\ CharAt(s, i + 1) = "4"
       /\ w + 4 <= Len(s)
       /\ SubSeq(s, w, w + 4) = <<"h","o","u","r","s">>
    THEN w + 5 ELSE 0

\* 24\s*hours at position i: the position after it, or 0
HoursWordAt(s, i) == HoursWordAfter(s, i, SpaceRunEnd(s, i + 2))

\* (\d{1,2}:\d{2}|24\s*hours) behind the clock a and its '-': b is the clock
\* there, h the end of 24 hours there
MilanEnd(s, a, b, h) ==
    IF b /= <<>> THEN <<Colon(a[1], a[2]), Colon(b[1], b[2])>>
    ELSE IF h /= 0 THEN <<Colon(a[1], a[2]), SubSeq(s, a[3] + 1, h - 1)>>
    ELSE <<>>

\* (\d{1,2}:\d{2})- behind the whitespace from j that ends before position w
MilanStart(s, j, w, a) ==
    IF w = j \/ a = <<>> THEN <<>>
    ELSE IF CharAt(s, a[3]) /= "-" THEN <<>>
    ELSE MilanEnd(s, a, ClockAt(s, a[3] + 1), HoursWordAt(s, a[3] + 1))

MilanSpaced(s, j, w) == MilanStart(s, j, w, ClockAt(s, w))

\* \s+(\d{1,2}:\d{2})-(\d{1,2}:\d{2}|24\s*hours) at position j: the two
\* time groups, or <<>>
MilanTailAt(s, j) == MilanSpaced(s, j, SpaceRunEnd(s, j))

\* the lazy first group is the shortest prefix after which the rest matches
MilanGroups(s, tails) ==
    IF \A j \in DOMAIN tails : tails[j] = <<>> THEN <<>>
    ELSE <<SubSeq(s, 1, Leftmost({j \in DOMAIN tails : tails[j] /= <<>>}) - 1)>>
         \o FirstMatch(tails)

\* re.match(r'(.*?)\s+(\d{1,2}:\d{2})-(\d{1,2}:\d{2}|24\s*hours)', s)
MilanMatch(s) == MilanGroups(s, [j \in 1..Len(s) |-> MilanTailAt(s, j)])

\* Restriction(days=days, start_time=start_time, end_time=end_time), below
\* the try block; a 24-hours end makes the times 00:00 and 23:59
MilanRestriction(days, whole_day, match) ==
    InList(Restriction_init(days,
                            IF whole_day THEN <<"0","0",":","0","0">> ELSE match[2],
                            IF whole_day THEN <<"2","3",":","5","9">> ELSE match[3],
                            NoArg))

\* one pass of the loop body of MilanScraper._parse_operating_hours: the
\* restrictions it appends; the try block holds no call that can raise, the
\* constructor below it can
MilanEntry(match) ==
    IF match = <<>> THEN Returns(<<>>)
    ELSE MilanRestriction(Milan_parse_day_range(match[1]).value,
                          PyLower(match[3]) = TwentyFourHours, match)

\* the loop over the entries' outcomes, up to the first entry that raises
RECURSIVE MilanFrom(_, _, _)
MilanFrom(entries, k, restrictions_acc) ==
    IF k > Len(entries) THEN Returns(restrictions_acc)
    ELSE IF entries[k].raised /= "none" THEN entries[k]
    ELSE MilanFrom(entries, k + 1, restrictions_acc \o entries[k].value)

\* for time_range in hours_text.split(','): time_range = time_range.strip(); ...
MilanEntries(time_ranges) ==
    [k \in DOMAIN time_ranges |-> MilanEntry(MilanMatch(PyStrip(time_ranges[k])))]

Milan_parse_operating_hours(hours_text) ==
    IF hours_text = <<>> THEN Returns(<<>>)
    ELSE MilanFrom(MilanEntries(PySplit(hours_text, ",")), 1, <<>>)

-----------------------------------------------------------------------------
(* models/city.py and data_storage/persistence.py *)

\* f'{n:02}' for 0 <= n < 100
Format02(n) == <<Digits[(n \div 10) + 1], Digits[(n % 10) + 1]>>

\* self.zones.append(zone)
City_add_zone(zones, zone_arg) == Append(zones, zone_arg)

\* f'{t.hour:02}:{t.minute:02}'
FormatTime(t) == Colon(Format02(t.hour), Format02(t.minute))

\* the restriction_data dict of one restriction
RestrictionData(r) ==
    [days |-> r.days,
     start_time |-> FormatTime(r.start_time),
     end_time |-> FormatTime(r.end_time),
     vehicle_types |-> r.vehicle_types]

\* the zone_data dict of one zone
ZoneData(z) ==
    [id |-> z.id, name |-> z.name, city |-> z.city, boundaries |-> z.boundaries,
     restrictions |-> [i \in DOMAIN z.restrictions |-> RestrictionData(z.restrictions[i])]]

\* with the hour written on the twelve-hour clock
save_city_twelve_hour_clock(city_arg) ==
    [name |-> city_arg.name,
     country |-> city_arg.country,
     zones |-> [i \in DOMAIN city_arg.zones |->
                  LET z == city_arg.zones[i] IN
                  [id |-> z.id, name |-> z.name, city |-> z.city, boundaries |-> z.boundaries,
                   restrictions |-> [j \in DOMAIN z.restrictions |->
                       LET r == z.restrictions[j] IN
                       [days |-> r.days,
                        start_time |-> Colon(Format02(r.start_time.hour % 12),
                                             Format02(r.start_time.minute)),
                        end_time |-> Colon(Format02(r.end_time.hour % 12),
                                           Format02(r.end_time.minute)),
                        vehicle_types |-> r.vehicle_types]]]]]

\* save_city(city, filepath): the document json.dump writes; lists, strings
\* and numbers are written and read back by json as themselves
save_city(city_arg) ==
    [name |-> city_arg.name,
     country |-> city_arg.country,
     zones |-> [i \in DOMAIN city_arg.zones |-> ZoneData(city_arg.zones[i])]]

\* dict.get(key, default)
DictGet(dict, key, default) == IF key \in DOMAIN dict THEN dict[key] ELSE default

Italy == <<"I","t","a","l","y">>

\* Restriction(days=restriction_data['days'], ...)
LoadRestriction(restriction_data) ==
    IF ~({"days", "start_time", "end_time"} \subseteq DOMAIN restriction_data)
    THEN Raises("KeyError")
    ELSE Restriction_init(restriction_data.days, restriction_data.start_time,
                          restriction_data.end_time,
                          Of(DictGet(restriction_data, "vehicle_types", <<>>)))

\* the restrictions of one zone_data, each built by the constructor and
\* added with add_restriction; a raise of the constructor leaves load_city
RECURSIVE LoadRestrictions(_, _, _)
LoadRestrictions(data, k, list) ==
    IF k > Len(data) THEN Returns(list)
    ELSE LET r == LoadRestriction(data[k])
         IN  IF r.raised /= "none" THEN r
             ELSE LoadRestrictions(data, k + 1, Zone_add_restriction(list, r.value))

\* the zones of city_data, added with add_zone
RECURSIVE LoadZones(_, _, _)
LoadZones(data, k, zones) ==
    IF k > Len(data) THEN Returns(zones)
    ELSE IF ~({"id", "name", "city", "boundaries"} \subseteq DOMAIN data[k]) THEN Raises("KeyError")
    ELSE LET loaded == LoadRestrictions(DictGet(data[k], "restrictions", <<>>), 1,
                                        Zone_init(NoArg))
         IN  IF loaded.raised /= "none" THEN loaded
             ELSE LoadZones(data, k + 1,
                      City_add_zone(zones,
                          [id |-> data[k].id, name |-> data[k].name, city |-> data[k].city,
                           boundaries |-> data[k].boundaries, restrictions |-> loaded.value]))

\* load_city(filepath): None when the file does not exist or a key is
\* missing, the City otherwise; document is NoCall or Of(city_data)
load_city(document) ==
    IF document = NoCall THEN Returns([found |-> FALSE])
    ELSE LET city_data == document[1] IN
         IF ~({"name", "zones"} \subseteq DOMAIN city_data) THEN Returns([found |-> FALSE])
         ELSE LET zones == LoadZones(city_data.zones, 1, <<>>) IN
              IF zones.raised = "KeyError" THEN Returns([found |-> FALSE])
              ELSE IF zones.raised /= "none" THEN zones
              ELSE Returns([found |-> TRUE,
                            city |-> [name |-> city_data.name,
                                      country |-> DictGet(city_data, "country", Italy),
                                      zones |-> zones.value]])

-----------------------------------------------------------------------------
(* scripts/visualize_ztl_zones.py *)

\* sub in s
PyIn(sub, s) == \E i \in 1..(Len(s) - Len(sub) + 1) : SubSeq(s, i, i + Len(sub) - 1) = sub

NightTag == <<"(","N","i","g","h","t",")">>

\* days[(days.index(day_name) - 1) % 7]
PrevDay(day_name) == day_order[((PyIndex(day_order, day_name) - 1) % 7) + 1]

\* the special handling of a night zone's restriction
NightRule(r, instant) ==
    /\ Thursday \in Range(r.days)
    /\ Friday \in Range(r.days)
    /\ Saturday \in Range(r.days)
    /\ r.start_time.hour = 23
    /\ r.end_time.hour = 3
    /\ \/ DayNameOf(instant) \in Range(r.days) /\ instant.hour >= r.start_time.hour
       \/ PrevDay(DayNameOf(instant)) \in Range(r.days) /\ instant.hour < r.end_time.hour

\* the loop over zone.restrictions
RECURSIVE CurrentlyActiveFrom(_, _, _)
CurrentlyActiveFrom(zone_arg, instant, k) ==
    IF k > Len(zone_arg.restrictions) THEN FALSE
    ELSE IF Zone_is_active_at(zone_arg.restrictions, instant) THEN TRUE
    ELSE IF PyIn(NightTag, zone_arg.name) /\ NightRule(zone_arg.restrictions[k], instant) THEN TRUE
    ELSE CurrentlyActiveFrom(zone_arg, instant, k + 1)

\* is_currently_active(zone, current_time)
is_currently_active(zone_arg, instant) == CurrentlyActiveFrom(zone_arg, instant, 1)

-----------------------------------------------------------------------------
(* SpecDays: the day-range expanders applied to day-range texts *)

\* longest abbreviation whose lower-case form is among the tokens
MaxAbbrev == 3

\* most hyphens in a day-range text built from whole day names
MaxHyphens == 2

SwapCase(s) == [i \in DOMAIN s |-> IF IsLower(s[i]) THEN ToUpper(s[i]) ELSE ToLower(s[i])]

DayNames == Range(day_order)

\* every prefix of a day name, the empty one included
Prefixes == UNION {{SubSeq(d, 1, k) : k \in 0..Len(d)} : d \in DayNames}

Unrecognized ==
    { <<"F","o","o">>,
      <<"M","o","n","d","a","y","s">>,
      <<"M","0","n">>,
      <<"d","a","y">>,
      EveryDay,
      <<"A","l","l"," ","d","a","y","s">> }

Tokens ==
    Prefixes
    \cup {PyLower(p) : p \in {q \in Prefixes : Len(q) <= MaxAbbrev}}
    \cup {PyLower(d) : d \in DayNames}
    \cup {PyUpper(d) : d \in DayNames}
    \cup {SwapCase(d) : d \in DayNames}
    \cup Unrecognized

\* '-'.join(fields)
RECURSIVE Join(_)
Join(fields) ==
    IF Len(fields) = 1 THEN fields[1]
    ELSE fields[1] \o <<"-">> \o Join(Tail(fields))

RECURSIVE Tuples(_, _)
Tuples(S, n) ==
    IF n = 0 THEN {<<>>}
    ELSE {<<x>> \o t : x \in S, t \in Tuples(S, n - 1)}

LongRangeDays == {Monday, Friday, Sunday}

DayRangeInputs ==
    Tokens
    \cup {Join(<<a, b>>) : a \in Tokens, b \in Tokens}
    \cup UNION {{Join(t) : t \in Tuples(LongRangeDays, n + 1)} : n \in 2..MaxHyphens}

InitIdleDays == day_range = None /\ call = "none" /\ result = None
InitIdleRestriction == restriction = None /\ dt = NoCall /\ active = NoCall
InitIdleZone ==
    /\ restrictions = <<>>
    /\ zone_dt = NoCall
    /\ zone_active = NoCall
    /\ constructed = <<>>
    /\ added = <<>>
InitIdleParse == parse_call = "none" /\ parse_args = None /\ parse_result = None
InitIdlePersist == city = None /\ file = NoCall /\ loaded_city = NoCall
InitIdleVisualize == zone = None /\ current_time = NoCall /\ currently_active = NoCall
InitIdleObjects ==
    /\ days_lists = <<>>
    /\ restrictions_lists = <<>>
    /\ restriction_objects = <<>>
    /\ zone_objects = <<>>
InitIdleQueries == queried = None /\ remembered = NoCall /\ last_answer = NoCall
InitIdleCity == city_constructed = NoArg /\ city_zones = <<>> /\ city_added = <<>> /\ lookup = NoCall
InitIdleApi == stored = NoCall /\ clock = <<>> /\ response = NoCall
InitIdleDirectory == directory = <<>> /\ all_cities = NoCall
InitIdleTurin == ztl_coordinates = <<>> /\ turin_zones = NoCall
InitIdleOther == InitIdleObjects /\ InitIdleQueries /\ InitIdleCity /\ InitIdleApi /\ InitIdleDirectory /\ InitIdleTurin

InitDays ==
    /\ day_range \in DayRangeInputs
    /\ call = "none"
    /\ result = None
    /\ InitIdleRestriction
    /\ InitIdleZone
    /\ InitIdleParse
    /\ InitIdlePersist
    /\ InitIdleVisualize
    /\ InitIdleOther

\* utils.expand_day_range(start_day, end_day) on the two fields of the text
CallExpandDayRange ==
    /\ call = "none"
    /\ Len(PySplit(day_range, "-")) = 2
    /\ call' = "utils"
    /\ result' = expand_day_range(PySplit(day_range, "-")[1], PySplit(day_range, "-")[2])
    /\ UNCHANGED <<day_range, restrVars, zoneVars, parseVars, persistVars, visualizeVars, otherVars>>

\* FlorenceScraper._expand_day_range(start_day, end_day), called by
\* _parse_restriction with the two fields of day_range.split('-')
CallFlorenceExpand ==
    /\ call = "none"
    /\ Len(PySplit(day_range, "-")) = 2
    /\ call' = "florence"
    /\ result' = Florence_expand_day_range(PySplit(day_range, "-")[1],
                                           PySplit(day_range, "-")[2])
    /\ UNCHANGED <<day_range, restrVars, zoneVars, parseVars, persistVars, visualizeVars, otherVars>>

CallNaplesExpand ==
    /\ call = "none"
    /\ call' = "naples"
    /\ result' = Naples_expand_day_range(day_range)
    /\ UNCHANGED <<day_range, restrVars, zoneVars, parseVars, persistVars, visualizeVars, otherVars>>

CallTurinExpand ==
    /\ call = "none"
    /\ call' = "turin"
    /\ result' = Turin_expand_day_range(day_range)
    /\ UNCHANGED <<day_range, restrVars, zoneVars, parseVars, persistVars, visualizeVars, otherVars>>

CallMilanParseDayRange ==
    /\ call = "none"
    /\ call' = "milan"
    /\ result' = Milan_parse_day_range(day_range)
    /\ UNCHANGED <<day_range, restrVars, zoneVars, parseVars, persistVars, visualizeVars, otherVars>>

NextDays ==
    \/ CallExpandDayRange
    \/ CallFlorenceExpand
    \/ CallNaplesExpand
    \/ CallTurinExpand
    \/ CallMilanParseDayRange

SpecDays == InitDays /\ [][NextDays]_vars

-----------------------------------------------------------------------------
(* SpecParse: the schedule-text parsers and the Restriction constructor     *)
(* applied to texts                                                         *)

\* most comma-separated entries in an operating-hours text
MaxEntries == 2

\* str(n) for 0 <= n < 100
PyStr(n) == IF n < 10 THEN <<Digits[n + 1]>> ELSE <<Digits[(n \div 10) + 1], Digits[(n % 10) + 1]>>

DayRangeTexts ==
    {
      <<"A","l","l"," ","d","a","y","s">>,                                                 \* 'All days'
      <<"a","l","l"," ","d","a","y","s">>,                                                 \* 'all days'
      <<"M","o","n","d","a","y","-","F","r","i","d","a","y">>,                             \* 'Monday-Friday'
      <<"F","r","i","d","a","y","-","M","o","n","d","a","y">>,                             \* 'Friday-Monday'
      <<"S","a","t","u","r","d","a","y","-","S","u","n","d","a","y">>,                     \* 'Saturday-Sunday'
      <<"M","o","n","d","a","y">>,                                                         \* 'Monday'
      <<"m","o","n","d","a","y">>,                                                         \* 'monday'
      <<"M","o","n","-","F","r","i">>,                                                     \* 'Mon-Fri'
      <<"F","o","o">>,                                                                     \* 'Foo'
      <<"F","o","o","-","B","a","r">>,                                                     \* 'Foo-Bar'
      <<"M","o","n","d","a","y","-","F","r","i","d","a","y","-","S","u","n","d","a","y">>, \* 'Monday-Friday-Sunday'
      <<" ","M","o","n","d","a","y"," ","-"," ","F","r","i","d","a","y"," ">>              \* ' Monday - Friday '
    }

TimeRangeTexts ==
    {
      <<"2","4"," ","h","o","u","r","s">>,                                 \* '24 hours'
      <<"2","4"," ","H","O","U","R","S">>,                                 \* '24 HOURS'
      <<"2","4"," ","H","o","u","r","s">>,                                 \* '24 Hours'
      <<"7",":","0","0","-","2","0",":","0","0">>,                         \* '7:00-20:00'
      <<"7",":","3","0","-","1","9",":","3","0">>,                         \* '7:30-19:30'
      <<"0",":","0","0","-","2","3",":","5","9">>,                         \* '0:00-23:59'
      <<"2","3",":","0","0","-","3",":","0","0">>,                         \* '23:00-3:00'
      <<"2","5",":","0","0","-","2","6",":","0","0">>,                     \* '25:00-26:00'
      <<"7",":","3","0","-","1","9",":","7","5">>,                         \* '7:30-19:75'
      <<"7",":","3","0">>,                                                 \* '7:30'
      <<"c","l","o","s","e","d">>,                                         \* 'closed'
      <<"7",".","3","0","-","1","9",".","3","0">>,                         \* '7.30-19.30'
      <<"7",",","3","0","-","1","9",",","3","0","."," ">>,                 \* '7,30-19,30. '
      <<"2","4","h","o","u","r","s">>,                                     \* '24hours'
      <<"7",":","0","0","-","2","0",":","0","0","-","2","2",":","0","0">>  \* '7:00-20:00-22:00'
    }

\* the clock readings written into time ranges
ClockHours == {0, 7, 19, 23}
ClockMinutes == {0, 30, 59}

\* a reading's hour as written: unpadded, and zero-padded too below ten
HourTexts(h) == {PyStr(h), Format02(h)}

\* 'h.mm-h.mm' with the separator sep, optionally spaces round the hyphen
\* and a trailing period
SeparatorForms(sep) ==
    { a \o <<sep>> \o Format02(m1) \o hyphen \o b \o <<sep>> \o Format02(m2) \o tail :
        a \in UNION {HourTexts(h) : h \in ClockHours},
        b \in UNION {HourTexts(h) : h \in ClockHours},
        m1 \in ClockMinutes, m2 \in ClockMinutes,
        hyphen \in {<<"-">>, <<" ","-"," ">>},
        tail \in {<<>>, <<".">>} }

\* every hour h and minute mm of the day, written 'h.mm' at the start and the
\* mirrored reading at the end
EveryClockForms(sep) ==
    { PyStr(h) \o <<sep>> \o Format02(m) \o hyphen
          \o PyStr(23 - h) \o <<sep>> \o Format02(59 - m) \o tail :
        h \in 0..23, m \in 0..59,
        hyphen \in {<<"-">>, <<" ","-"," ">>},
        tail \in {<<>>, <<".">>} }

Separators == {".", ",", ":"}

SeparatorTimeRanges ==
    UNION {SeparatorForms(sep) \cup EveryClockForms(sep) : sep \in Separators}

\* arguments of _parse_restriction(day_range, time_range)
ParseRestrictionArgs ==
    {[day_range |-> d, time_range |-> t] : d \in DayRangeTexts, t \in TimeRangeTexts}
    \cup {[day_range |-> Join(<<Monday, Friday>>), time_range |-> t] :
              t \in SeparatorTimeRanges}

HoursEntries ==
    {
      <<"M","o","n","d","a","y","-","F","r","i","d","a","y"," ","7",":","3","0","-","1","9",":","3","0">>, \* 'Monday-Friday 7:30-19:30'
      <<"S","a","t","u","r","d","a","y"," ","1","0",":","0","0","-","1","8",":","0","0">>,                 \* 'Saturday 10:00-18:00'
      <<"7",":","3","0","-","1","9",":","3","0">>,                                                         \* '7:30-19:30'
      <<"F","r","i","d","a","y","-","M","o","n","d","a","y"," ","2","2",":","0","0","-","6",":","0","0">>, \* 'Friday-Monday 22:00-6:00'
      <<"M","o","n","-","F","r","i"," ","8",":","0","0","-","1","8",":","0","0">>,                         \* 'Mon-Fri 8:00-18:00'
      <<"m","o","n","d","a","y"," ","9",":","0","0","-","1","7",":","0","0">>,                             \* 'monday 9:00-17:00'
      <<"A","l","l"," ","d","a","y","s"," ","0",":","0","0","-","2","4"," ","h","o","u","r","s">>,         \* 'All days 0:00-24 hours'
      <<"S","u","n","d","a","y"," ","0",":","0","0","-","2","4","h","o","u","r","s">>,                     \* 'Sunday 0:00-24hours'
      <<"F","o","o","-","B","a","r"," ","7",":","3","0","-","1","9",":","3","0">>,                         \* 'Foo-Bar 7:30-19:30'
      <<"F","o","o"," ","7",":","3","0","-","1","9",":","3","0">>,                                         \* 'Foo 7:30-19:30'
      <<"M","o","n","d","a","y"," ","2","5",":","0","0","-","2","6",":","0","0">>,                         \* 'Monday 25:00-26:00'
      <<"T","u","e","s","d","a","y"," ","8",":","0","0","-","9",":","7","5">>,                             \* 'Tuesday 8:00-9:75'
      <<"W","e","d","n","e","s","d","a","y"," ","8","-","1","8">>,                                         \* 'Wednesday 8-18'
      <<"c","l","o","s","e","d">>,                                                                         \* 'closed'
      <<>>                                                                                                 \* ''
    }

\* ', '.join(entries)
RECURSIVE JoinComma(_)
JoinComma(entries) ==
    IF Len(entries) = 1 THEN entries[1]
    ELSE entries[1] \o <<",", " ">> \o JoinComma(Tail(entries))

\* operating-hours texts of one to MaxEntries entries
HoursTexts ==
    UNION {{JoinComma(t) : t \in Tuples(HoursEntries, n)} : n \in 1..MaxEntries}

\* start_time and end_time strings handed to the constructor
TimeTexts ==
    {
      <<"0",":","0","0">>,                 \* '0:00'
      <<"0","0",":","0","0">>,             \* '00:00'
      <<"7",":","3","0">>,                 \* '7:30'
      <<"0","7",":","3","0">>,             \* '07:30'
      <<"2","3",":","5","9">>,             \* '23:59'
      <<"2","4",":","0","0">>,             \* '24:00'
      <<"-","1",":","0","0">>,             \* '-1:00'
      <<"1","2",":","6","0">>,             \* '12:60'
      <<"1","2",":","-","5">>,             \* '12:-5'
      <<"7",":","3">>,                     \* '7:3'
      <<"0","0","7",":","0","3","0">>,     \* '007:030'
      <<"+","7",":","3","0">>,             \* '+7:30'
      <<"7",":","+","3","0">>,             \* '7:+30'
      <<" ","7",":","3","0">>,             \* ' 7:30'
      <<"7",":","3","0"," ">>,             \* '7:30 '
      <<"7"," ",":"," ","3","0">>,         \* '7 : 30'
      <<"1","_","2",":","0","0">>,         \* '1_2:00'
      <<"7",".","3","0">>,                 \* '7.30'
      <<"7",":","3","0",":","0","0">>,     \* '7:30:00'
      <<"7","3","0">>,                     \* '730'
      <<":">>,                             \* ':'
      <<"7",":">>,                         \* '7:'
      <<":","3","0">>,                     \* ':30'
      <<>>,                                \* ''
      <<"a",":","b">>,                     \* 'a:b'
      <<"s","e","v","e","n",":","3","0">>  \* 'seven:30'
    }

ParseInputs ==
    ParseRestrictionArgs
    \cup {[hours_text |-> t] : t \in HoursTexts}
    \cup {[start_time |-> a, end_time |-> b] : a \in TimeTexts, b \in TimeTexts}

InitParse ==
    /\ parse_args \in ParseInputs
    /\ parse_call = "none"
    /\ parse_result = None
    /\ InitIdleDays
    /\ InitIdleRestriction
    /\ InitIdleZone
    /\ InitIdlePersist
    /\ InitIdleVisualize
    /\ InitIdleOther

\* BolognaScraper()._parse_restriction(day_range, time_range)
CallBolognaParseRestriction ==
    /\ parse_call = "none"
    /\ DOMAIN parse_args = {"day_range", "time_range"}
    /\ parse_call' = "bologna"
    /\ parse_result' = Bologna_parse_restriction(parse_args.day_range, parse_args.time_range)
    /\ UNCHANGED <<parse_args, dayVars, restrVars, zoneVars, persistVars, visualizeVars, otherVars>>

\* FlorenceScraper()._parse_restriction(day_range, time_range)
CallFlorenceParseRestriction ==
    /\ parse_call = "none"
    /\ DOMAIN parse_args = {"day_range", "time_range"}
    /\ parse_call' = "florence"
    /\ parse_result' = Florence_parse_restriction(parse_args.day_range, parse_args.time_range)
    /\ UNCHANGED <<parse_args, dayVars, restrVars, zoneVars, persistVars, visualizeVars, otherVars>>

\* MilanScraper()._parse_operating_hours(hours_text)
CallMilanParseOperatingHours ==
    /\ parse_call = "none"
    /\ DOMAIN parse_args = {"hours_text"}
    /\ parse_call' = "milan"
    /\ parse_result' = Milan_parse_operating_hours(parse_args.hours_text)
    /\ UNCHANGED <<parse_args, dayVars, restrVars, zoneVars, persistVars, visualizeVars, otherVars>>

\* utils.extract_time_ranges(text)
CallExtractTimeRanges ==
    /\ parse_call = "none"
    /\ DOMAIN parse_args = {"hours_text"}
    /\ parse_call' = "utils"
    /\ parse_result' = extract_time_ranges(parse_args.hours_text)
    /\ UNCHANGED <<parse_args, dayVars, restrVars, zoneVars, persistVars, visualizeVars, otherVars>>

\* Restriction(days, start_time, end_time)
CallRestriction ==
    /\ parse_call = "none"
    /\ DOMAIN parse_args = {"start_time", "end_time"}
    /\ parse_call' = "Restriction"
    /\ parse_result' = Restriction_init(Weekdays, parse_args.start_time,
                                        parse_args.end_time, NoArg)
    /\ UNCHANGED <<parse_args, dayVars, restrVars, zoneVars, persistVars, visualizeVars, otherVars>>

NextParse ==
    \/ CallBolognaParseRestriction
    \/ CallFlorenceParseRestriction
    \/ CallMilanParseOperatingHours
    \/ CallExtractTimeRanges
    \/ CallRestriction

SpecParse == InitParse /\ [][NextParse]_vars

-----------------------------------------------------------------------------
(* SpecRestriction: one Restriction, built by its constructor, then queried *)

T0000 == <<"0","0",":","0","0">>
T0730 == <<"7",":","3","0">>
T0930 == <<"0","9",":","3","0">>
T1745 == <<"1","7",":","4","5">>
T2100 == <<"2","1",":","0","0">>
T2359 == <<"2","3",":","5","9">>

TimeStrings == {T0000, T0730, T0930, T1745, T2100, T2359}

DayLists ==
    { <<>>,
      <<Wednesday>>,
      <<Monday, Wednesday, Friday>>,
      <<Thursday, Friday, Saturday>>,
      Weekdays,
      day_order }

\* the clock readings probed: each boundary, the minutes around it, and
\* readings well inside and outside the windows
ProbeClock ==
    { <<0,0>>, <<0,1>>, <<2,0>>, <<7,29>>, <<7,30>>, <<7,31>>,
      <<9,29>>, <<9,30>>, <<9,31>>, <<12,0>>, <<17,44>>, <<17,45>>, <<17,46>>,
      <<20,59>>, <<21,0>>, <<21,1>>, <<22,0>>, <<23,58>>, <<23,59>> }

\* (second, microsecond) readings within a minute
ProbeSubMinute == { <<0,0>>, <<30,0>> }

Instant(wd, h, m, sec, us) ==
    [weekday |-> wd, hour |-> h, minute |-> m, second |-> sec, microsecond |-> us]

Instants ==
    {Instant(wd, c[1], c[2], u[1], u[2]) : wd \in 0..6, c \in ProbeClock, u \in ProbeSubMinute}

\* datetime.time(h, m)
Clock(h, m) == [hour |-> h, minute |-> m, second |-> 0, microsecond |-> 0]

\* every hour:minute of every weekday
EveryMinute == {Instant(wd, h, m, 0, 0) : wd \in 0..6, h \in 0..23, m \in 0..59}

InitRestriction ==
    /\ \E days \in DayLists, start \in TimeStrings, end \in TimeStrings :
          restriction = Restriction_init(days, start, end, NoArg)
    /\ dt = NoCall
    /\ active = NoCall
    /\ InitIdleDays
    /\ InitIdleZone
    /\ InitIdleParse
    /\ InitIdlePersist
    /\ InitIdleVisualize
    /\ InitIdleOther

\* restriction.is_active_at(dt)
CallRestrictionIsActiveAt ==
    /\ restriction.raised = "none"
    /\ dt = NoCall
    /\ \E instant \in Instants :
          /\ dt' = Of(instant)
          /\ active' = Of(Restriction_is_active_at(restriction.value, instant))
    /\ UNCHANGED <<restriction, dayVars, zoneVars, parseVars, persistVars, visualizeVars, otherVars>>

NextRestriction == CallRestrictionIsActiveAt

SpecRestriction == InitRestriction /\ [][NextRestriction]_vars

-----------------------------------------------------------------------------
(* Spec: a Zone, its append-only restrictions list and its activity query *)

\* most restrictions added to the zone
MaxRestrictions == 2

T1000 == <<"1","0",":","0","0">>
T1800 == <<"1","8",":","0","0">>
T1930 == <<"1","9",":","3","0">>

\* constructor arguments of the restrictions the scrapers and tests build
ZoneRestrictionArgs ==
    { <<Weekdays, T0730, T1930>>,
      <<<<Saturday>>, T1000, T1800>>,
      <<day_order, T2100, T0730>>,
      <<<<Sunday>>, T0000, T2359>> }

ZoneClock == { <<2,0>>, <<7,30>>, <<12,0>>, <<19,0>>, <<19,31>>, <<22,0>> }

ZoneInstants == {Instant(wd, c[1], c[2], 0, 0) : wd \in 0..6, c \in ZoneClock}

Built(args) == Restriction_init(args[1], args[2], args[3], NoArg).value

\* the restrictions argument of the Zone constructor: left out, empty, or a
\* list of restrictions
ConstructionLists ==
    { NoArg, Of(<<>>),
      Of(<<Built(<<Weekdays, T0730, T1930>>)>>),
      Of(<<Built(<<<<Saturday>>, T1000, T1800>>), Built(<<Weekdays, T0730, T1930>>)>>) }

\* Zone(id, name, city, boundaries, restrictions)
Init ==
    /\ constructed \in ConstructionLists
    /\ restrictions = Zone_init(constructed)
    /\ added = <<>>
    /\ zone_dt = NoCall
    /\ zone_active = NoCall
    /\ InitIdleDays
    /\ InitIdleRestriction
    /\ InitIdleParse
    /\ InitIdlePersist
    /\ InitIdleVisualize
    /\ InitIdleOther

\* zone.add_restriction(Restriction(days, start_time, end_time))
AddRestriction ==
    /\ Len(added) < MaxRestrictions
    /\ \E args \in ZoneRestrictionArgs :
          LET r == Restriction_init(args[1], args[2], args[3], NoArg) IN
          /\ r.raised = "none"
          /\ restrictions' = Zone_add_restriction(restrictions, r.value)
          /\ added' = Append(added, r.value)
    /\ zone_dt' = NoCall
    /\ zone_active' = NoCall
    /\ UNCHANGED <<constructed, dayVars, restrVars, parseVars, persistVars, visualizeVars, otherVars>>

\* zone.is_active_at(datetime)
CallZoneIsActiveAt ==
    /\ \E instant \in ZoneInstants :
          /\ zone_dt' = Of(instant)
          /\ zone_active' = Of(Zone_is_active_at(restrictions, instant))
    /\ UNCHANGED <<restrictions, constructed, added, dayVars, restrVars, parseVars, persistVars, visualizeVars, otherVars>>

Next ==
    \/ AddRestriction
    \/ CallZoneIsActiveAt

Spec == Init /\ [][Next]_vars

-----------------------------------------------------------------------------
(* SpecPersist: a City written by save_city and read back by load_city *)

\* most zones in a city
MaxZones == 2

Milano == <<"M","i","l","a","n","o">>

\* [longitude, latitude] pairs in units of 0.0001 degree
AreaCBoundaries ==
    << <<91859, 454654>>, <<91897, 454675>>, <<91923, 454662>>,
       <<91883, 454641>>, <<91859, 454654>> >>

\* restrictions as the constructor builds them, with and without vehicle types
WithVehicleTypes ==
    Restriction_init(<<Sunday>>, T0000, T2359,
                     Of(<< <<"c","a","r">>, <<"m","o","t","o","r","c","y","c","l","e">> >>)).value

CityRestrictionLists ==
    { <<>>,
      <<Built(<<Weekdays, T0730, T1930>>)>>,
      <<Built(<<Weekdays, T0730, T1930>>), Built(<<<<Saturday>>, T1000, T1800>>)>>,
      <<Built(<<<<Saturday>>, T1000, T1800>>), Built(<<Weekdays, T0730, T1930>>)>>,
      <<Built(<<day_order, T2100, T0730>>)>>,
      <<WithVehicleTypes, Built(<<<<>>, T0000, T0000>>)>> }

CityZones ==
    {[id |-> <<"m","i","l","a","n","o","-","a","r","e","a","-","c">>, name |-> <<"A","r","e","a"," ","C">>, city |-> Milano,
      boundaries |-> AreaCBoundaries, restrictions |-> Zone_init(Of(list))] :
        list \in CityRestrictionLists}
    \cup
    {[id |-> <<"m","i","l","a","n","o","-","a","r","e","a","-","b">>, name |-> <<"A","r","e","a"," ","B">>, city |-> Milano,
      boundaries |-> <<>>, restrictions |-> Zone_init(Of(list))] :
        list \in CityRestrictionLists}

\* City(name, country) followed by add_zone for each zone
RECURSIVE WithZones(_, _)
WithZones(zones, more) ==
    IF more = <<>> THEN zones ELSE WithZones(City_add_zone(zones, Head(more)), Tail(more))

Cities ==
    {[name |-> Milano, country |-> country, zones |-> WithZones(<<>>, zs)] :
        country \in {Italy, <<"S","a","n"," ","M","a","r","i","n","o">>},
        zs \in UNION {Tuples(CityZones, n) : n \in 0..MaxZones}}

InitPersist ==
    /\ city \in Cities
    /\ file = NoCall
    /\ loaded_city = NoCall
    /\ InitIdleDays
    /\ InitIdleRestriction
    /\ InitIdleZone
    /\ InitIdleParse
    /\ InitIdleVisualize
    /\ InitIdleOther

\* save_city(city, filepath)
SaveCity ==
    /\ file' = Of(save_city(city))
    /\ loaded_city' = NoCall
    /\ UNCHANGED <<city, dayVars, restrVars, zoneVars, parseVars, visualizeVars, otherVars>>

\* load_city(filepath)
LoadCity ==
    /\ loaded_city = NoCall
    /\ loaded_city' = Of(load_city(file))
    /\ UNCHANGED <<city, file, dayVars, restrVars, zoneVars, parseVars, visualizeVars, otherVars>>

NextPersist ==
    \/ SaveCity
    \/ LoadCity

SpecPersist == InitPersist /\ [][NextPersist]_vars

-----------------------------------------------------------------------------
(* Properties of Restriction.is_active_at (SpecRestriction) *)

Queried == dt /= NoCall
TheRestriction == restriction.value
TheInstant == dt[1]
WasActive == active[1]

\* seconds since midnight
SecondsOf(t) == (t.hour * 60 + t.minute) * 60 + t.second

\* a is not later in the day than b
NotLater(a, b) ==
    \/ SecondsOf(a) < SecondsOf(b)
    \/ SecondsOf(a) = SecondsOf(b) /\ a.microsecond <= b.microsecond

SameDayWindow == NotLater(TheRestriction.start_time, TheRestriction.end_time)

Listed(instant) == DayNameOf(instant) \in Range(TheRestriction.days)

AtOrAfterStart(instant) ==
    NotLater(TheRestriction.start_time, TimeOf(instant))

AtOrBeforeEnd(instant) ==
    NotLater(TimeOf(instant), TheRestriction.end_time)

\* instant + timedelta(minutes=1) and instant - timedelta(minutes=1)
PlusOneMinute(instant) ==
    IF instant.minute < 59 THEN [instant EXCEPT !.minute = @ + 1]
    ELSE IF instant.hour < 23 THEN [instant EXCEPT !.minute = 0, !.hour = @ + 1]
    ELSE [instant EXCEPT !.minute = 0, !.hour = 0, !.weekday = (@ + 1) % 7]

MinusOneMinute(instant) ==
    IF instant.minute > 0 THEN [instant EXCEPT !.minute = @ - 1]
    ELSE IF instant.hour > 0 THEN [instant EXCEPT !.minute = 59, !.hour = @ - 1]
    ELSE [instant EXCEPT !.minute = 59, !.hour = 23, !.weekday = (@ + 6) % 7]

\* the instant is the start (the end) of the window on a listed day
IsWindowStart(instant) ==
    Listed(instant) /\ TimeOf(instant) = TheRestriction.start_time

IsWindowEnd(instant) ==
    Listed(instant) /\ TimeOf(instant) = TheRestriction.end_time

WholeDayWindow ==
    /\ TheRestriction.start_time.hour = 0 /\ TheRestriction.start_time.minute = 0
    /\ TheRestriction.end_time.hour = 23 /\ TheRestriction.end_time.minute = 59

ActiveIffListedAndWithin ==
    WasActive = (Listed(TheInstant) /\ AtOrAfterStart(TheInstant) /\ AtOrBeforeEnd(TheInstant))

ActiveOnBoundaries ==
    /\ IsWindowStart(TheInstant) => WasActive
    /\ IsWindowEnd(TheInstant) => WasActive

\* C1 as stated: for start_time <= end_time, is_active_at(T) is true iff T's
\* weekday is in days and start_time <= T's time-of-day <= end_time; it is true
\* exactly at start and at end, and false one minute before start and one
\* minute after end.
C1_Original ==
    (Queried /\ SameDayWindow) =>
        /\ ActiveIffListedAndWithin
        /\ ActiveOnBoundaries
        /\ IsWindowStart(PlusOneMinute(TheInstant)) => ~WasActive
        /\ IsWindowEnd(MinusOneMinute(TheInstant)) => ~WasActive

\* C1 amended: for start_time <= end_time, is_active_at(T) is true iff T's
\* weekday is in days and start_time <= T's time-of-day <= end_time; it is true
\* exactly at start and at end, and false one minute before start and one
\* minute after end, unless the window is the whole day 00:00-23:59 and that
\* adjacent minute falls on a listed neighbouring day.
C1_SameDayWindowInclusive ==
    (Queried /\ SameDayWindow) =>
        /\ ActiveIffListedAndWithin
        /\ ActiveOnBoundaries
        /\ (/\ IsWindowStart(PlusOneMinute(TheInstant))
            /\ ~(WholeDayWindow /\ Listed(TheInstant))) => ~WasActive
        /\ (/\ IsWindowEnd(MinusOneMinute(TheInstant))
            /\ ~(WholeDayWindow /\ Listed(TheInstant))) => ~WasActive

\* C1 witness: the 09:30-17:45 Monday/Wednesday/Friday restriction of the
\* tests, asked on Wednesday at 17:45 exactly, answers active.
C1_Witness ==
    /\ Queried
    /\ TheRestriction.days = <<Monday, Wednesday, Friday>>
    /\ TheRestriction.start_time = [hour |-> 9, minute |-> 30, second |-> 0, microsecond |-> 0]
    /\ TheRestriction.end_time = [hour |-> 17, minute |-> 45, second |-> 0, microsecond |-> 0]
    /\ TheInstant = Instant(2, 17, 45, 0, 0)
    /\ WasActive

PreviousDayName(instant) == day_order[((instant.weekday + 6) % 7) + 1]

\* C2: for a window that crosses midnight (start_time > end_time),
\* is_active_at(T) is true iff T's weekday is listed and T's time-of-day >=
\* start_time (case A), or the weekday before T's is listed and T's
\* time-of-day <= end_time (case B).
C2_MidnightCrossing ==
    (Queried /\ ~SameDayWindow) =>
        WasActive =
            \/ Listed(TheInstant) /\ AtOrAfterStart(TheInstant)
            \/ /\ PreviousDayName(TheInstant) \in Range(TheRestriction.days)
               /\ AtOrBeforeEnd(TheInstant)

-----------------------------------------------------------------------------
(* Properties of Zone.is_active_at (Spec) *)

RECURSIVE Reverse(_)
Reverse(list) == IF list = <<>> THEN <<>> ELSE Append(Reverse(Tail(list)), Head(list))

\* C3: Zone.is_active_at(T) is true iff the restrictions list is non-empty and
\* at least one restriction is active at T, whatever the order of the list; a
\* zone without restrictions is inactive at every instant.
C3_ZoneActiveIffAnyRestriction ==
    zone_dt /= NoCall =>
        /\ zone_active[1] =
              /\ restrictions /= <<>>
              /\ \E i \in DOMAIN restrictions :
                    Restriction_is_active_at(restrictions[i], zone_dt[1])
        /\ restrictions = <<>> => zone_active[1] = FALSE
        /\ Zone_is_active_at(Reverse(restrictions), zone_dt[1]) = zone_active[1]

\* C3 witness: the zone holds two restrictions, only the second of which is
\* active at the instant asked, and the zone answers active.
C3_Witness ==
    /\ zone_dt /= NoCall
    /\ Len(restrictions) = 2
    /\ ~Restriction_is_active_at(restrictions[1], zone_dt[1])
    /\ Restriction_is_active_at(restrictions[2], zone_dt[1])
    /\ zone_active[1] = TRUE

-----------------------------------------------------------------------------
(* Properties of the day-range expanders (SpecDays) *)

Fields == PySplit(day_range, "-")
StartToken == Fields[1]
EndToken == Fields[2]

\* the 0-based place of a weekday name in the Monday..Sunday order
DayIndex(d) == CHOOSE i \in 0..6 : day_order[i + 1] = d

\* the token is the given day's name, or a prefix of it, in any letter case
IsPrefixAnyCase(token, d) ==
    /\ Len(token) <= Len(d)
    /\ PyLower(token) = PyLower(SubSeq(d, 1, Len(token)))

IsDayAnyCase(token) == \E d \in DayNames : PyLower(token) = PyLower(d)

DaysStartingWith(token) == {d \in DayNames : IsPrefixAnyCase(token, d)}

TheDay(token) == CHOOSE d \in DayNames : IsPrefixAnyCase(token, d)

\* the n weekdays met from place i on, going round the week
CycleFrom(i, n) == [k \in 1..n |-> day_order[((i + k - 1) % 7) + 1]]

CycleBetween(a, b) ==
    CycleFrom(DayIndex(a), ((DayIndex(b) - DayIndex(a) + 7) % 7) + 1)

\* C4: for two weekday names in any letter case, utils.expand_day_range returns
\* the inclusive run of weekdays from start to end round the Monday..Sunday
\* cycle: it begins with start, ends with end, has ((index(end) - index(start))
\* mod 7) + 1 elements and holds no day twice.
C4_ExpandDayRangeCyclic ==
    (call = "utils" /\ IsDayAnyCase(StartToken) /\ IsDayAnyCase(EndToken)) =>
        LET a == TheDay(StartToken)
            b == TheDay(EndToken)
            n == ((DayIndex(b) - DayIndex(a) + 7) % 7) + 1
        IN  /\ result.raised = "none"
            /\ Len(result.value) = n
            /\ result.value[1] = a
            /\ result.value[n] = b
            /\ result.value = CycleFrom(DayIndex(a), n)
            /\ \A i, j \in 1..n : i /= j => result.value[i] /= result.value[j]

\* C4 witness: expand_day_range('friday', 'MONDAY') wraps past Sunday.
C4_Witness ==
    /\ call = "utils"
    /\ StartToken = PyLower(Friday)
    /\ EndToken = PyUpper(Monday)
    /\ result = Returns(<<Friday, Saturday, Sunday, Monday>>)

\* C5: for a hyphenated range of two weekday names whose end day precedes its
\* start day, the Naples, Turin and Florence expanders return the same
\* wraparound list as utils.expand_day_range, never an empty or cut one.
C5_ScraperWraparound ==
    (/\ call \in {"naples", "turin", "florence"}
     /\ Len(Fields) = 2
     /\ StartToken \in DayNames
     /\ EndToken \in DayNames
     /\ DayIndex(EndToken) < DayIndex(StartToken)) =>
        /\ result = expand_day_range(StartToken, EndToken)
        /\ result = Returns(CycleBetween(StartToken, EndToken))

\* C6: a day-range text that is one weekday name without a hyphen expands to
\* the one-element list of that day in the Naples, Turin and Milan expanders.
C6_SingleDay ==
    (call \in {"naples", "turin", "milan"} /\ day_range \in DayNames) =>
        result = Returns(<<day_range>>)

\* C7: in the Turin and the Naples scraper _expand_day_range('Every day')
\* returns all seven weekdays in Monday..Sunday order.
C7_EveryDay ==
    (call \in {"naples", "turin"} /\ day_range = EveryDay) =>
        result = Returns(day_order)

\* C8: utils.expand_day_range raises, and returns no list, whenever the start
\* token or the end token resolves to no weekday.
C8_UnresolvedTokenRaises ==
    (/\ call = "utils"
     /\ DaysStartingWith(StartToken) = {} \/ DaysStartingWith(EndToken) = {}) =>
        /\ result.raised = "ValueError"
        /\ result.value = None

\* C8 witness: expand_day_range('Foo', 'Friday') raised.
C8_Witness ==
    /\ call = "utils"
    /\ StartToken = <<"F","o","o">>
    /\ EndToken = Friday
    /\ result.raised = "ValueError"

\* the text names a day the expander does not know, or is no day range
UnknownDayRange(text) ==
    LET fields == PySplit(text, "-") IN
    \/ Len(fields) > 2
    \/ text /= EveryDay /\ \E i \in DOMAIN fields : fields[i] \notin DayNames

\* C9: the Naples and Turin expanders never raise: for every text with an
\* unrecognized day name or format, texts with more than one hyphen included,
\* they return exactly Monday..Friday.
C9_FallbackNeverRaises ==
    (call \in {"naples", "turin"} /\ UnknownDayRange(day_range)) =>
        result = Returns(Weekdays)

\* C10: a non-empty token that is, ignoring letter case, a prefix of exactly
\* one weekday name resolves to that weekday: utils.expand_day_range gives the
\* result it gives for the full day names.
C10_UniquePrefixResolves ==
    (/\ call = "utils"
     /\ StartToken /= <<>> /\ Cardinality(DaysStartingWith(StartToken)) = 1
     /\ EndToken /= <<>> /\ Cardinality(DaysStartingWith(EndToken)) = 1) =>
        /\ result = expand_day_range(TheDay(StartToken), TheDay(EndToken))
        /\ result = Returns(CycleBetween(TheDay(StartToken), TheDay(EndToken)))

\* C10 witness: expand_day_range('W', 'fri') gives Wednesday..Friday.
C10_Witness ==
    /\ call = "utils"
    /\ StartToken = <<"W">>
    /\ EndToken = <<"f","r","i">>
    /\ result = Returns(<<Wednesday, Thursday, Friday>>)

-----------------------------------------------------------------------------
(* SpecVisualize: is_currently_active asked about a zone at an instant *)

T2300 == <<"2","3",":","0","0">>
T0300 == <<"3",":","0","0">>
T2330 == <<"2","3",":","3","0">>

NightDays == <<Thursday, Friday, Saturday>>

SettoreANight == <<"Z","T","L"," ","S","e","t","t","o","r","e"," ","A"," ","(","N","i","g","h","t",")">>
SettoreA == <<"Z","T","L"," ","S","e","t","t","o","r","e"," ","A">>

\* the night zone the script builds, and zones that differ from it in one
\* respect each
VisualizeZones ==
    { [name |-> SettoreANight, restrictions |-> <<Built(<<NightDays, T2300, T0300>>)>>],
      [name |-> SettoreA, restrictions |-> <<Built(<<NightDays, T2300, T0300>>)>>],
      [name |-> SettoreANight,
       restrictions |-> <<Built(<<Weekdays, T0730, T1930>>), Built(<<NightDays, T2300, T0300>>)>>],
      [name |-> SettoreANight, restrictions |-> <<Built(<<<<Friday, Saturday>>, T2300, T0300>>)>>],
      [name |-> SettoreANight, restrictions |-> <<Built(<<NightDays, T2330, T0300>>)>>],
      [name |-> SettoreANight, restrictions |-> <<>>] }

InitVisualize ==
    /\ zone \in VisualizeZones
    /\ current_time = NoCall
    /\ currently_active = NoCall
    /\ InitIdleDays
    /\ InitIdleRestriction
    /\ InitIdleZone
    /\ InitIdleParse
    /\ InitIdlePersist
    /\ InitIdleOther

\* is_currently_active(zone, current_time), current_time being any minute
\* of the week (datetime.now() when left out)
CallIsCurrentlyActive ==
    /\ current_time = NoCall
    /\ \E instant \in EveryMinute :
          /\ current_time' = Of(instant)
          /\ currently_active' = Of(is_currently_active(zone, instant))
    /\ UNCHANGED <<zone, dayVars, restrVars, zoneVars, parseVars, persistVars, otherVars>>

NextVisualize == CallIsCurrentlyActive

SpecVisualize == InitVisualize /\ [][NextVisualize]_vars

-----------------------------------------------------------------------------
(* Claims C11..C20 *)

Parsed == parse_call /= "none"
Returned == Parsed /\ parse_result.raised = "none"
Raised == Parsed /\ parse_result.raised /= "none"

Canonical(days) == Range(days) \subseteq DayNames

\* C11: every Restriction that Bologna's or Florence's _parse_restriction
\* returns, and every day list in a tuple that utils.extract_time_ranges
\* returns, holds only the seven canonical weekday names Monday..Sunday,
\* whatever the input text.
C11_CanonicalDays ==
    /\ (Returned /\ parse_call \in {"bologna", "florence"}) =>
          \A i \in DOMAIN parse_result.value : Canonical(parse_result.value[i].days)
    /\ (Returned /\ parse_call = "utils") =>
          \A i \in DOMAIN parse_result.value :
              parse_result.value[i][1] /= NoArg => Canonical(parse_result.value[i][1][1])

\* the H:MM / HH:MM 24-hour format: one or two digits, a colon, two digits,
\* the hour in 0..23 and the minute in 0..59, and nothing else
ConformsHHMM(t) ==
    /\ Len(t) \in {4, 5}
    /\ t[Len(t) - 2] = ":"
    /\ \A i \in DOMAIN t : i /= Len(t) - 2 => IsDigit(t[i])
    /\ DigitsValue(SubSeq(t, 1, Len(t) - 3), 0) \in 0..23
    /\ DigitsValue(SubSeq(t, Len(t) - 1, Len(t)), 0) \in 0..59

\* C12: Restriction(days, start_time, end_time) raises ValueError, and yields
\* no object, exactly when start_time or end_time is not of the H:MM / HH:MM
\* 24-hour format; it succeeds for every pair of conforming strings.
C12_StrictTimeFormat ==
    (Parsed /\ parse_call = "Restriction") =>
        /\ parse_result.raised \in {"none", "ValueError"}
        /\ parse_result.raised = "ValueError" <=>
              ~(ConformsHHMM(parse_args.start_time) /\ ConformsHHMM(parse_args.end_time))
        /\ parse_result.raised = "ValueError" => parse_result.value = None

\* the entries of an operating-hours text
EntriesOf(text) == PySplit(text, ",")

\* what a parser that skips the entries it cannot use returns: the results
\* of the entries it can use, in input order
ParseEntry(parser, entry) ==
    IF parser = "milan" THEN Milan_parse_operating_hours(entry)
    ELSE extract_time_ranges(entry)

RECURSIVE SkippingBadEntries(_, _)
SkippingBadEntries(parser, entries) ==
    IF entries = <<>> THEN <<>>
    ELSE (IF ParseEntry(parser, Head(entries)).raised = "none"
          THEN ParseEntry(parser, Head(entries)).value ELSE <<>>)
         \o SkippingBadEntries(parser, Tail(entries))

\* C13: MilanScraper._parse_operating_hours never raises; an entry whose
\* time text is malformed or not a valid clock time yields no Restriction,
\* and the Restrictions of the other entries are returned in input order.
C13_MilanNeverRaises ==
    (Parsed /\ parse_call = "milan") =>
        /\ parse_result.raised = "none"
        /\ parse_result.value =
              SkippingBadEntries("milan", EntriesOf(parse_args.hours_text))

\* the day name resolves to a weekday the way expand_day_range resolves it
Resolves(day) == ScanDayOrder(PyTitle(day), 1, -1) /= -1

\* the entry matches the day-range, the single-day or the time-only pattern
MatchesDayRange(entry) == SearchDayRange(PyStrip(entry)) /= <<>>
MatchesSingleDay(entry) == SearchSingleDay(PyStrip(entry)) /= <<>>
MatchesTimeOnly(entry) == SearchTimes(PyStrip(entry)) /= <<>>

\* the tuple of one entry follows the first pattern that matches it: a
\* range of days, else one day, else no days
Precedence(entry, tuples) ==
    /\ MatchesDayRange(entry) =>
          \A i \in DOMAIN tuples :
              /\ tuples[i][1] /= NoArg
              /\ tuples[i][1][1] =
                    expand_day_range(SearchDayRange(PyStrip(entry))[1],
                                     SearchDayRange(PyStrip(entry))[2]).value
    /\ (~MatchesDayRange(entry) /\ MatchesSingleDay(entry)) =>
          \A i \in DOMAIN tuples :
              tuples[i][1] = Of(<<SearchSingleDay(PyStrip(entry))[1]>>)
    /\ (~MatchesDayRange(entry) /\ ~MatchesSingleDay(entry)) =>
          \A i \in DOMAIN tuples : tuples[i][1] = NoArg
    /\ Len(tuples) = (IF MatchesTimeOnly(entry) THEN 1 ELSE 0)

\* C14: utils.extract_time_ranges never raises; an entry that matches no
\* pattern, or whose day names do not resolve to weekdays, is skipped; the
\* tuples of the other entries are returned in input order, a day-range
\* match taking precedence over a single-day match and that over time-only.
C14_ExtractNeverRaises ==
    (Parsed /\ parse_call = "utils") =>
        /\ parse_result.raised = "none"
        /\ parse_result.value =
              SkippingBadEntries("utils", EntriesOf(parse_args.hours_text))
        /\ \A i \in DOMAIN parse_result.value :
              parse_result.value[i][1] /= NoArg =>
                  \A d \in Range(parse_result.value[i][1][1]) : Resolves(d)
        /\ Len(EntriesOf(parse_args.hours_text)) = 1 =>
              Precedence(parse_args.hours_text, parse_result.value)

\* C15: no Restriction that MilanScraper._parse_operating_hours returns has
\* an empty day list: an entry whose day text resolves to no weekday
\* contributes nothing to the result.
C15_MilanNoEmptyDays ==
    (Returned /\ parse_call = "milan") =>
        \A i \in DOMAIN parse_result.value : parse_result.value[i].days /= <<>>

BolognaWholeDay ==
    /\ Parsed
    /\ parse_call = "bologna"
    /\ PyLower(parse_args.time_range) = TwentyFourHours

\* C16: for a time range equal to '24 hours' in any letter case, and a day
\* range with at most one hyphen, BolognaScraper._parse_restriction returns
\* exactly one Restriction, from 00:00 to 23:59; with the day range
\* 'All days' a zone holding it is active at every hour:minute of every
\* weekday.
C16_BolognaWholeDay ==
    BolognaWholeDay =>
        /\ Len(PySplit(parse_args.day_range, "-")) <= 2 =>
              /\ parse_result.raised = "none"
              /\ Len(parse_result.value) = 1
              /\ parse_result.value[1].start_time = Clock(0, 0)
              /\ parse_result.value[1].end_time = Clock(23, 59)
        /\ PyLower(parse_args.day_range) = AllDaysLower =>
              /\ parse_result.raised = "none"
              /\ parse_result.value[1].days = day_order
              /\ \A instant \in EveryMinute :
                    Zone_is_active_at(Zone_init(Of(parse_result.value)), instant)

C16_Witness ==
    /\ BolognaWholeDay
    /\ parse_args.time_range /= TwentyFourHours
    /\ PyLower(parse_args.day_range) = AllDaysLower
    /\ parse_result.raised = "none"
    /\ Zone_is_active_at(Zone_init(Of(parse_result.value)), Instant(6, 23, 59, 0, 0))

\* the numbers written in a text, in order: the value of each run of digits
RECURSIVE NumbersFrom(_, _, _)
NumbersFrom(s, i, run) ==
    IF i > Len(s) THEN (IF run = <<>> THEN <<>> ELSE <<DigitsValue(run, 0)>>)
    ELSE IF IsDigit(s[i]) THEN NumbersFrom(s, i + 1, Append(run, s[i]))
    ELSE (IF run = <<>> THEN <<>> ELSE <<DigitsValue(run, 0)>>) \o NumbersFrom(s, i + 1, <<>>)

NumbersIn(s) == NumbersFrom(s, 1, <<>>)

T0730Dotted == <<"7",".","3","0","-","1","9",".","3","0">>

FlorenceSeparated ==
    /\ Parsed
    /\ parse_call = "florence"
    /\ parse_args.time_range \in SeparatorTimeRanges \cup {T0730Dotted}
    /\ \/ ~PyContains(parse_args.day_range, "-")
       \/ /\ Len(PySplit(parse_args.day_range, "-")) = 2
          /\ Range(PySplit(parse_args.day_range, "-")) \subseteq DayNames

\* C17: for every valid hour h and minute mm, FlorenceScraper._parse_restriction
\* gives the time ranges 'h.mm-h.mm', 'h,mm-h,mm' and 'h:mm-h:mm', with or
\* without a trailing period and spaces round the hyphen, one Restriction
\* whose start and end are the readings h:mm written in the text, whatever
\* the separator ('7.30-19.30' gives 07:30-19:30).
C17_FlorenceSeparators ==
    FlorenceSeparated =>
        /\ parse_result.raised = "none"
        /\ Len(parse_result.value) = 1
        /\ parse_result.value[1].start_time =
              Clock(NumbersIn(parse_args.time_range)[1], NumbersIn(parse_args.time_range)[2])
        /\ parse_result.value[1].end_time =
              Clock(NumbersIn(parse_args.time_range)[3], NumbersIn(parse_args.time_range)[4])
        /\ parse_args.time_range = T0730Dotted =>
              /\ parse_result.value[1].start_time = Clock(7, 30)
              /\ parse_result.value[1].end_time = Clock(19, 30)

C17_Witness ==
    /\ FlorenceSeparated
    /\ parse_args.time_range = <<"7",",","3","0"," ","-"," ","1","9",",","3","0",".">>
    /\ parse_result.raised = "none"
    /\ parse_result.value[1].start_time = Clock(7, 30)
    /\ parse_result.value[1].end_time = Clock(19, 30)

Saved == file /= NoCall
Reloaded == Saved /\ loaded_city /= NoCall
TheDocument == file[1]
TheLoaded == loaded_city[1].value.city

\* a zero-padded HH:MM string
ZeroPaddedHHMM(t) ==
    /\ Len(t) = 5
    /\ t[3] = ":"
    /\ \A i \in {1, 2, 4, 5} : IsDigit(t[i])

SameRestriction(a, b) ==
    /\ a.days = b.days
    /\ a.start_time = b.start_time
    /\ a.end_time = b.end_time
    /\ a.vehicle_types = b.vehicle_types

SameZone(a, b) ==
    /\ a.id = b.id
    /\ a.name = b.name
    /\ a.city = b.city
    /\ a.boundaries = b.boundaries
    /\ Len(a.restrictions) = Len(b.restrictions)
    /\ \A j \in DOMAIN a.restrictions : SameRestriction(a.restrictions[j], b.restrictions[j])
    /\ \A instant \in Instants :
          Zone_is_active_at(a.restrictions, instant) = Zone_is_active_at(b.restrictions, instant)

\* C18: load_city applied to the file save_city wrote returns a City with
\* the same name and country, the same zones in the same order (id, name,
\* city, boundaries) and in each zone the same restrictions in the same
\* order (days, start_time, end_time, vehicle_types), the times being
\* zero-padded HH:MM in the file; is_active_at agrees between the two.
C18_RoundTrip ==
    Reloaded =>
        /\ loaded_city[1].raised = "none"
        /\ loaded_city[1].value.found
        /\ TheLoaded.name = city.name
        /\ TheLoaded.country = city.country
        /\ Len(TheLoaded.zones) = Len(city.zones)
        /\ \A i \in DOMAIN city.zones : SameZone(city.zones[i], TheLoaded.zones[i])
        /\ \A i \in DOMAIN TheDocument.zones :
              \A j \in DOMAIN TheDocument.zones[i].restrictions :
                  /\ ZeroPaddedHHMM(TheDocument.zones[i].restrictions[j].start_time)
                  /\ ZeroPaddedHHMM(TheDocument.zones[i].restrictions[j].end_time)

\* a reloaded city of two zones, one holding an evening restriction and one
\* whose start was given unpadded
C18_Witness ==
    /\ Reloaded
    /\ loaded_city[1].value.found
    /\ Len(TheLoaded.zones) = 2
    /\ TheLoaded.country /= Italy
    /\ \E i \in DOMAIN TheLoaded.zones : \E j \in DOMAIN TheLoaded.zones[i].restrictions :
          /\ TheLoaded.zones[i].restrictions[j].end_time = Clock(19, 30)
          /\ TheLoaded.zones[i].restrictions[j].start_time = Clock(7, 30)
          /\ TheDocument.zones[i].restrictions[j].start_time = <<"0","7",":","3","0">>
    /\ \E i \in DOMAIN TheLoaded.zones : \E j \in DOMAIN TheLoaded.zones[i].restrictions :
          TheLoaded.zones[i].restrictions[j].vehicle_types /= <<>>

Asked == current_time /= NoCall
Now == current_time[1]
NightRestriction == Built(<<NightDays, T2300, T0300>>)

\* the zone of the claim: '(Night)' in its name, one restriction on
\* Thursday, Friday and Saturday from 23:00 to 03:00
FlorenceNightZone ==
    /\ PyIn(NightTag, zone.name)
    /\ zone.restrictions = <<NightRestriction>>

\* Case A: a listed day, at or after the start; Case B: the day after a
\* listed day, at or before the end
CaseA(r, instant) ==
    DayNameOf(instant) \in Range(r.days) /\ TimeLE(r.start_time, TimeOf(instant))
CaseB(r, instant) ==
    PreviousDayName(instant) \in Range(r.days) /\ TimeLE(TimeOf(instant), r.end_time)

\* C19: for a zone named '... (Night)' whose restriction is Thursday, Friday,
\* Saturday 23:00-03:00, is_currently_active is true at Thursday 23:00, at
\* Friday 00:30 and at Friday 03:00, false at Friday 03:01 and at Thursday
\* 22:59, and at every minute of the week it equals Case A or Case B.
C19_NightZoneActive ==
    (Asked /\ FlorenceNightZone) =>
        /\ Now = Instant(3, 23, 0, 0, 0) => currently_active = Of(TRUE)
        /\ Now = Instant(4, 0, 30, 0, 0) => currently_active = Of(TRUE)
        /\ Now = Instant(4, 3, 0, 0, 0) => currently_active = Of(TRUE)
        /\ Now = Instant(4, 3, 1, 0, 0) => currently_active = Of(FALSE)
        /\ Now = Instant(3, 22, 59, 0, 0) => currently_active = Of(FALSE)
        /\ currently_active = Of(CaseA(NightRestriction, Now) \/ CaseB(NightRestriction, Now))

\* C20: after any sequence of add_restriction calls the zone's restrictions
\* list is the list it had at construction followed by the added
\* restrictions in call order: each call lengthens it by one, and nothing is
\* removed, replaced or reordered.
C20_AppendOnly ==
    /\ restrictions = Zone_init(constructed) \o added
    /\ Len(restrictions) = Len(Zone_init(constructed)) + Len(added)

\* a zone constructed with a list, then given two different restrictions
C20_Witness ==
    /\ Zone_init(constructed) /= <<>>
    /\ Len(added) = 2
    /\ added[1] /= added[2]
    /\ restrictions[Len(restrictions)] = added[2]
    /\ restrictions[1] = Zone_init(constructed)[1]

-----------------------------------------------------------------------------
(* SpecObjects: Zones, Restrictions and the list objects they keep, by     *)
(* identity.  An object's identity is its position in the sequence of the  *)
(* objects of its kind; a list attribute holds the identity of a list.     *)

\* most objects of one kind, and most elements of one list
MaxObjects == 2

\* a list display [...] evaluates to a new list object
NewList(heap, content) == Append(heap, content)

\* self.restrictions = restrictions or []: the identity of the list the zone
\* keeps; ref is NoArg or Of(the identity of the list passed), and an empty
\* list is falsy
Zone_restrictions(heap, ref) ==
    IF ref = NoArg THEN Len(heap) + 1
    ELSE IF heap[ref[1]] = <<>> THEN Len(heap) + 1
    ELSE ref[1]

\* the list objects after Zone(..., restrictions=ref)
Zone_init_lists(heap, ref) ==
    IF Zone_restrictions(heap, ref) > Len(heap) THEN NewList(heap, <<>>) ELSE heap

\* list.append(x) on the list object with identity ref
ListAppend(heap, ref, x) == [heap EXCEPT ![ref] = Append(@, x)]

\* self.restrictions.append(restriction) on the zone's list object
Zone_add_restriction_object(heap, zone_object, r) ==
    [heap EXCEPT ![zone_object.restrictions] = Zone_add_restriction(@, r)]

\* the Restriction as its methods read it: self.days is the list object
TheRestrictionObject(r) ==
    [restriction_objects[r] EXCEPT !.days = days_lists[restriction_objects[r].days]]

\* the Restrictions in the zone's list object, in list order
TheZoneRestrictions(z) ==
    [k \in DOMAIN restrictions_lists[zone_objects[z].restrictions] |->
        TheRestrictionObject(restrictions_lists[zone_objects[z].restrictions][k])]

\* Monday 08:00 and Sunday 08:00
ObjectInstants == {Instant(0, 8, 0, 0, 0), Instant(6, 8, 0, 0, 0)}

DaysDisplays == {<<>>, <<Monday>>}

RestrictionsDisplays ==
    {<<>>} \cup {<<r>> : r \in DOMAIN restriction_objects}

InitIdleCore ==
    /\ InitIdleDays
    /\ InitIdleRestriction
    /\ InitIdleZone
    /\ InitIdleParse
    /\ InitIdlePersist
    /\ InitIdleVisualize

\* no object yet; the other specifications' variables are idle, and stay so
InitObjects == InitIdleCore /\ InitIdleOther

\* days = [...]
NewDaysList ==
    /\ Len(days_lists) < MaxObjects
    /\ \E content \in DaysDisplays : days_lists' = NewList(days_lists, content)
    /\ UNCHANGED <<restrictions_lists, restriction_objects, zone_objects, besidesObject>>

\* restrictions = [...]
NewRestrictionsList ==
    /\ Len(restrictions_lists) < MaxObjects
    /\ \E content \in RestrictionsDisplays :
          restrictions_lists' = NewList(restrictions_lists, content)
    /\ UNCHANGED <<days_lists, restriction_objects, zone_objects, besidesObject>>

\* Restriction(days, '7:30', '19:30') with days the list object d
ConstructRestrictionOf(d) ==
    /\ Len(restriction_objects) < MaxObjects
    /\ restriction_objects' =
          Append(restriction_objects, Restriction_init(d, T0730, T1930, NoArg).value)
    /\ UNCHANGED <<days_lists, restrictions_lists, zone_objects, besidesObject>>

ConstructRestriction == \E d \in DOMAIN days_lists : ConstructRestrictionOf(d)

\* Zone(id, name, city, boundaries, restrictions) with restrictions left out
\* or the list object ref[1]
ConstructZoneOf(ref) ==
    /\ Len(zone_objects) < MaxObjects
    /\ Len(restrictions_lists) <= MaxObjects
    /\ zone_objects' =
          Append(zone_objects, [restrictions |-> Zone_restrictions(restrictions_lists, ref)])
    /\ restrictions_lists' = Zone_init_lists(restrictions_lists, ref)
    /\ UNCHANGED <<days_lists, restriction_objects, besidesObject>>

ConstructZone ==
    \E ref \in {NoArg} \cup {Of(l) : l \in DOMAIN restrictions_lists} : ConstructZoneOf(ref)

\* zone.add_restriction(restriction) on the zone z
AddRestrictionTo(z, r) ==
    /\ Len(restrictions_lists[zone_objects[z].restrictions]) < MaxObjects
    /\ restrictions_lists' = Zone_add_restriction_object(restrictions_lists, zone_objects[z], r)
    /\ UNCHANGED <<days_lists, restriction_objects, zone_objects, besidesObject>>

ZoneAddRestriction ==
    \E z \in DOMAIN zone_objects, r \in DOMAIN restriction_objects : AddRestrictionTo(z, r)

\* days.append('Sunday') by the holder of the list object d
AppendToDays(d) ==
    /\ Len(days_lists[d]) < MaxObjects
    /\ days_lists' = ListAppend(days_lists, d, Sunday)
    /\ UNCHANGED <<restrictions_lists, restriction_objects, zone_objects, besidesObject>>

DaysAppend == \E d \in DOMAIN days_lists : AppendToDays(d)

NextObjects ==
    \/ NewDaysList
    \/ NewRestrictionsList
    \/ ConstructRestriction
    \/ ConstructZone
    \/ ZoneAddRestriction
    \/ DaysAppend

SpecObjects == InitObjects /\ [][NextObjects]_vars

-----------------------------------------------------------------------------
(* Claims C21..C30 *)

\* the elements of the list the zone z keeps
ZoneList(z) == restrictions_lists[zone_objects[z].restrictions]

\* C21: a zone's restrictions list is its own: add_restriction on one Zone
\* leaves the restrictions list of every other Zone as it was, however the
\* zones were constructed
C21_ExclusiveRestrictionsList ==
    [][\A z \in DOMAIN zone_objects, r \in DOMAIN restriction_objects :
          AddRestrictionTo(z, r) =>
              \A y \in DOMAIN zone_objects \ {z} : ZoneList(y)' = ZoneList(y)]_vars

\* C29: a Restriction does not change after construction: appending to the
\* list that was passed as its days, or to the days of another Restriction
\* built from that list, changes neither its days nor what is_active_at
\* returns at any instant
C29_ImmutableRestriction ==
    [][\A d \in DOMAIN days_lists :
          AppendToDays(d) =>
              \A r \in DOMAIN restriction_objects :
                  /\ TheRestrictionObject(r)' = TheRestrictionObject(r)
                  /\ \A instant \in ObjectInstants :
                        Restriction_is_active_at(TheRestrictionObject(r), instant)'
                            = Restriction_is_active_at(TheRestrictionObject(r), instant)]_vars

-----------------------------------------------------------------------------
(* SpecCity: one City, its add_zone calls and its get_zone_by_id lookups *)

\* most add_zone calls on the city
MaxAdded == 3

\* self.zones = zones or []
City_init(zones_arg) ==
    IF zones_arg = NoArg THEN <<>>
    ELSE IF zones_arg[1] = <<>> THEN <<>>
    ELSE zones_arg[1]

\* a lookup that keeps scanning and returns the latest zone with the id
City_get_zone_by_id_last(zones, zone_id) ==
    IF \E k \in DOMAIN zones : zones[k].id = zone_id
    THEN Of(zones[CHOOSE k \in DOMAIN zones :
                    /\ zones[k].id = zone_id
                    /\ \A j \in DOMAIN zones : zones[j].id = zone_id => j <= k])
    ELSE <<>>

\* for zone in self.zones, from the k-th on: return the first one whose id
\* is zone_id; <<>> is None
RECURSIVE ZoneFrom(_, _, _)
ZoneFrom(zones, k, zone_id) ==
    IF k > Len(zones) THEN <<>>
    ELSE IF zones[k].id = zone_id THEN Of(zones[k])
    ELSE ZoneFrom(zones, k + 1, zone_id)

City_get_zone_by_id(zones, zone_id) == ZoneFrom(zones, 1, zone_id)

AreaCId == <<"a","r","e","a","-","c">>
AreaBId == <<"a","r","e","a","-","b">>

\* two zones that share an id, one with its own, and an id no zone has
AddedZones ==
    {[id |-> AreaCId, name |-> <<"A","r","e","a"," ","C">>, city |-> Milano,
      boundaries |-> AreaCBoundaries, restrictions |-> Zone_init(NoArg)],
     [id |-> AreaCId, name |-> <<"C","e","r","c","h","i","a">>, city |-> Milano,
      boundaries |-> <<>>, restrictions |-> Zone_init(NoArg)],
     [id |-> AreaBId, name |-> <<"A","r","e","a"," ","B">>, city |-> Milano,
      boundaries |-> <<>>, restrictions |-> Zone_init(NoArg)]}

LookupIds == {AreaCId, AreaBId, <<"n","o","n","-","e","x","i","s","t","e","n","t">>}

\* City(name, country) and City(name, zones=zones)
InitCity ==
    /\ city_constructed \in {NoArg, Of(<<>>)} \cup {Of(<<z>>) : z \in AddedZones}
    /\ city_zones = City_init(city_constructed)
    /\ city_added = <<>>
    /\ lookup = NoCall
    /\ InitIdleCore
    /\ InitIdleTurin
    /\ InitIdleDirectory
    /\ InitIdleObjects
    /\ InitIdleQueries
    /\ InitIdleApi

\* city.add_zone(zone); an earlier lookup's answer is of the list before
CityAddZone ==
    /\ Len(city_added) < MaxAdded
    /\ \E zone_arg \in AddedZones :
          /\ city_zones' = City_add_zone(city_zones, zone_arg)
          /\ city_added' = Append(city_added, zone_arg)
    /\ lookup' = NoCall
    /\ UNCHANGED <<city_constructed, besidesCity>>

\* city.get_zone_by_id(zone_id)
CityGetZoneById ==
    /\ \E zone_id \in LookupIds :
          lookup' = Of([zone_id |-> zone_id, zone |-> City_get_zone_by_id(city_zones, zone_id)])
    /\ UNCHANGED <<city_constructed, city_zones, city_added, besidesCity>>

NextCity ==
    \/ CityAddZone
    \/ CityGetZoneById

SpecCity == InitCity /\ [][NextCity]_vars

\* the positions of the city's zones that carry the looked-up id
Matching == {k \in DOMAIN city_zones : city_zones[k].id = lookup[1].zone_id}

\* C22: City.zones holds the zones in insertion order, after those the
\* constructor was given, and get_zone_by_id returns the earliest zone of the
\* list with the id, or None when no zone has it
C22_InsertionOrderFirstMatch ==
    /\ city_zones = City_init(city_constructed) \o city_added
    /\ lookup /= NoCall =>
          IF Matching = {} THEN lookup[1].zone = <<>>
          ELSE \E k \in Matching :
                  /\ \A j \in Matching : k <= j
                  /\ lookup[1].zone = Of(city_zones[k])

\* two different zones with one id were added, and a lookup of that id
\* returned the one added first
C22_Witness ==
    /\ city_constructed = NoArg
    /\ Len(city_added) >= 2
    /\ city_added[1].id = city_added[2].id
    /\ city_added[1] /= city_added[2]
    /\ lookup /= NoCall
    /\ lookup[1].zone_id = city_added[1].id
    /\ lookup[1].zone = Of(city_added[1])

-----------------------------------------------------------------------------
(* SpecQueries: is_active_at called again and again on one Zone and on the
   Restrictions in its list *)

\* Monday 08:00, Monday 20:00, Saturday 12:00
QueryInstants == {Instant(0, 8, 0, 0, 0), Instant(0, 20, 0, 0, 0), Instant(5, 12, 0, 0, 0)}

\* the restrictions lists of the zones that are queried
QueriedZones ==
    { <<>>,
      <<Built(<<Weekdays, T0730, T1930>>)>>,
      <<Built(<<Weekdays, T0730, T1930>>), Built(<<<<Saturday>>, T1000, T1800>>)>>,
      <<WithVehicleTypes, Built(<<day_order, T2100, T0730>>)>> }

\* a call and what it returned; the object is 0 for the zone or the position
\* of a restriction in the zone's list
Answer(object, instant, value) == [object |-> object, instant |-> instant, result |-> value]

InitQueries ==
    /\ queried \in QueriedZones
    /\ remembered = NoCall
    /\ last_answer = NoCall
    /\ InitIdleCore
    /\ InitIdleTurin
    /\ InitIdleDirectory
    /\ InitIdleObjects
    /\ InitIdleCity
    /\ InitIdleApi

\* zone.is_active_at(instant)
QueryZone ==
    /\ \E instant \in QueryInstants :
          last_answer' = Of(Answer(0, instant, Zone_is_active_at(queried, instant)))
    /\ remembered' \in {remembered, last_answer}
    /\ UNCHANGED <<queried, besidesQuery>>

\* zone.restrictions[k].is_active_at(instant)
QueryRestriction ==
    /\ \E k \in DOMAIN queried, instant \in QueryInstants :
          last_answer' = Of(Answer(k, instant, Restriction_is_active_at(queried[k], instant)))
    /\ remembered' \in {remembered, last_answer}
    /\ UNCHANGED <<queried, besidesQuery>>

NextQueries ==
    \/ QueryZone
    \/ QueryRestriction

SpecQueries == InitQueries /\ [][NextQueries]_vars

SameQuestion ==
    /\ remembered /= NoCall
    /\ last_answer /= NoCall
    /\ remembered[1].object = last_answer[1].object
    /\ remembered[1].instant = last_answer[1].instant

-----------------------------------------------------------------------------
(* api/endpoints.py *)

\* raise HTTPException(status_code=404, ...)
NotFound == [raised |-> "HTTPException", status_code |-> 404]

\* Zone(id=zone.id, name=zone.name, city=zone.city, is_active=...)
ApiZone(zone_arg, is_active) ==
    [id |-> zone_arg.id, name |-> zone_arg.name, city |-> zone_arg.city, is_active |-> is_active]

\* the loop of get_active_zones with datetime.now() read anew for every zone
RECURSIVE ActiveZonesFrom_now_per_zone(_, _, _, _)
ActiveZonesFrom_now_per_zone(zones, k, readings, active_zones) ==
    IF k > Len(zones) THEN active_zones
    ELSE ActiveZonesFrom_now_per_zone(zones, k + 1, readings,
             IF Zone_is_active_at(zones[k].restrictions, readings[k])
             THEN Append(active_zones, ApiZone(zones[k], TRUE))
             ELSE active_zones)

\* current_time = datetime.now(), then for zone in city.zones, from the k-th
\* on: if zone.is_active_at(current_time): active_zones.append(...)
RECURSIVE ActiveZonesFrom(_, _, _, _)
ActiveZonesFrom(zones, k, readings, active_zones) ==
    IF k > Len(zones) THEN active_zones
    ELSE ActiveZonesFrom(zones, k + 1, readings,
             IF Zone_is_active_at(zones[k].restrictions, readings[1])
             THEN Append(active_zones, ApiZone(zones[k], TRUE))
             ELSE active_zones)

\* what get_active_zones makes of load_city's outcome; a raise of load_city
\* leaves the handler
ActiveZonesOf(loaded, readings) ==
    IF loaded.raised /= "none" THEN loaded
    ELSE IF ~loaded.value.found THEN NotFound
    ELSE Returns(ActiveZonesFrom(loaded.value.city.zones, 1, readings, <<>>))

\* GET /cities/{city_name}/active-zones
get_active_zones(document, readings) == ActiveZonesOf(load_city(document), readings)

\* what get_city makes of load_city's outcome: datetime.now() is read for
\* every zone
CityOf(loaded, readings) ==
    IF loaded.raised /= "none" THEN loaded
    ELSE IF ~loaded.value.found THEN NotFound
    ELSE Returns([name |-> loaded.value.city.name,
                  country |-> loaded.value.city.country,
                  zones |-> [k \in DOMAIN loaded.value.city.zones |->
                                ApiZone(loaded.value.city.zones[k],
                                        Zone_is_active_at(loaded.value.city.zones[k].restrictions,
                                                          readings[k]))]])

\* GET /cities/{city_name}
get_city(document, readings) == CityOf(load_city(document), readings)

(* SpecApi: requests for one city name, with or without a file behind it *)

\* Monday 19:30 and Saturday 12:00
ApiInstants == {Instant(0, 19, 30, 0, 0), Instant(5, 12, 0, 0, 0)}

\* no file, a file without its zones key, the files save_city writes for the
\* cities of Italy
StoredFiles ==
    {NoCall, Of([name |-> Milano])}
    \cup {Of(save_city(c)) : c \in {c \in Cities : c.country = Italy}}

InitApi ==
    /\ stored \in StoredFiles
    /\ clock \in Tuples(ApiInstants, MaxZones)
    /\ response = NoCall
    /\ InitIdleCore
    /\ InitIdleTurin
    /\ InitIdleDirectory
    /\ InitIdleObjects
    /\ InitIdleQueries
    /\ InitIdleCity

GetCity ==
    /\ response' = Of([endpoint |-> "get_city", outcome |-> get_city(stored, clock)])
    /\ UNCHANGED <<stored, clock, besidesApi>>

GetActiveZones ==
    /\ response' = Of([endpoint |-> "get_active_zones", outcome |-> get_active_zones(stored, clock)])
    /\ UNCHANGED <<stored, clock, besidesApi>>

NextApi ==
    \/ GetCity
    \/ GetActiveZones

SpecApi == InitApi /\ [][NextApi]_vars

\* the positions of the zones that are active at the instant
ActiveAt(zones, instant) ==
    {k \in DOMAIN zones : Zone_is_active_at(zones[k].restrictions, instant)}

\* the position of the i-th of them
NthOf(positions, i) == CHOOSE k \in positions : Cardinality({j \in positions : j < k}) = i - 1

\* the answers the claim asks for, given what load_city returned
AnswersAsClaimed(loaded, outcome, endpoint, instant) ==
    IF ~loaded.value.found THEN outcome = NotFound
    ELSE endpoint = "get_active_zones" =>
            /\ outcome.raised = "none"
            /\ Len(outcome.value) = Cardinality(ActiveAt(loaded.value.city.zones, instant))
            /\ \A i \in DOMAIN outcome.value :
                  outcome.value[i] =
                      ApiZone(loaded.value.city.zones[NthOf(ActiveAt(loaded.value.city.zones, instant), i)],
                              TRUE)

\* C24: the active-zones endpoint returns, in the city's order and with
\* is_active true, exactly the zones of the loaded city that are active at
\* the one instant it read from the clock; both endpoints answer 404 when
\* load_city finds no city
C24_ActiveZonesAtOneInstant ==
    response /= NoCall =>
        AnswersAsClaimed(load_city(stored), response[1].outcome, response[1].endpoint, clock[1])

\* a city of two different zones, asked under two different clock readings:
\* the second zone alone was returned
C24_Witness ==
    /\ response /= NoCall
    /\ response[1].endpoint = "get_active_zones"
    /\ response[1].outcome.raised = "none"
    /\ Len(stored[1].zones) = 2
    /\ Len(response[1].outcome.value) = 1
    /\ response[1].outcome.value[1].id = stored[1].zones[2].id
    /\ stored[1].zones[1].id /= stored[1].zones[2].id
    /\ clock[1] /= clock[2]

-----------------------------------------------------------------------------
(* Claim C30, of utils.expand_day_range (SpecDays) *)

\* the latest day of the week that the token is a prefix of
LastDayStartingWith(token) ==
    CHOOSE d \in DaysStartingWith(token) :
        \A e \in DaysStartingWith(token) : DayIndex(e) <= DayIndex(d)

\* C30: utils.expand_day_range resolves each token that is a prefix of one or
\* more day names, the empty token included, to the last of those days in
\* Monday..Sunday order, and does not raise: ('T', 'T') gives [Thursday],
\* ('S', 'S') and ('', '') give [Sunday]
C30_LastPrefixMatchWins ==
    (/\ call = "utils"
     /\ DaysStartingWith(StartToken) /= {}
     /\ DaysStartingWith(EndToken) /= {}) =>
        /\ result = Returns(CycleBetween(LastDayStartingWith(StartToken),
                                         LastDayStartingWith(EndToken)))
        /\ day_range = <<"T","-","T">> => result = Returns(<<Thursday>>)
        /\ day_range \in {<<"S","-","S">>, <<"-">>} => result = Returns(<<Sunday>>)

\* expand_day_range('T', 'S') returned Thursday..Sunday
C30_Witness ==
    /\ call = "utils"
    /\ StartToken = <<"T">>
    /\ EndToken = <<"S">>
    /\ result = Returns(<<Thursday, Friday, Saturday, Sunday>>)

-----------------------------------------------------------------------------
(* Claim C26, of Restriction.is_active_at (SpecRestriction) *)

\* the instant at which the minute of the given instant starts
StartOfMinute(instant) == [instant EXCEPT !.second = 0, !.microsecond = 0]

\* C26: Restriction.is_active_at depends on the instant's weekday, hour and
\* minute only: an instant is active exactly when the start of its minute
\* is, the seconds of the end minute included
C26_MinuteGranularity ==
    Queried =>
        WasActive = Restriction_is_active_at(TheRestriction, StartOfMinute(TheInstant))

-----------------------------------------------------------------------------
(* Claim C27, of Zone.add_restriction and Zone.is_active_at (Spec) *)

\* C27: adding a restriction never deactivates a zone: at every instant at
\* which the zone was active before add_restriction(r) it is active after,
\* and after the call it is active at every instant at which r is
C27_AddNeverDeactivates ==
    [][added' /= added =>
          \A instant \in ZoneInstants :
              /\ Zone_is_active_at(restrictions, instant)
                    => Zone_is_active_at(restrictions', instant)
              /\ Restriction_is_active_at(added'[Len(added')], instant)
                    => Zone_is_active_at(restrictions', instant)]_vars

\* a zone constructed with restrictions was given two more and answers
\* active at an instant at which the first of its list and the last added
\* are active and the first added is not
C27_Witness ==
    /\ Len(Zone_init(constructed)) >= 1
    /\ Len(added) = 2
    /\ zone_dt /= NoCall
    /\ zone_active[1]
    /\ Restriction_is_active_at(restrictions[1], zone_dt[1])
    /\ Restriction_is_active_at(added[2], zone_dt[1])
    /\ ~Restriction_is_active_at(added[1], zone_dt[1])

-----------------------------------------------------------------------------
(* data_storage/persistence.py: load_all_cities *)

\* load_city(file_path) on a file of the directory: json.load raises
\* JSONDecodeError on a file that is not JSON, and load_city returns None
load_city_file(file_arg) ==
    IF file_arg.json = "invalid" THEN Returns([found |-> FALSE])
    ELSE load_city(Of(file_arg.data))

\* one round of the loop: the city is appended when load_city returned one;
\* JSONDecodeError and KeyError are caught, any other raise leaves the loop
\* and load_all_cities
AfterFile(loaded, cities) ==
    IF loaded.raised \in {"JSONDecodeError", "KeyError"} THEN Returns(cities)
    ELSE IF loaded.raised /= "none" THEN loaded
    ELSE IF loaded.value.found THEN Returns(Append(cities, loaded.value.city))
    ELSE Returns(cities)

\* for file_path in json_files, from the k-th on
RECURSIVE LoadAllFrom(_, _, _)
LoadAllFrom(json_files, k, cities) ==
    IF k > Len(json_files) THEN cities
    ELSE IF cities.raised /= "none" THEN cities
    ELSE LoadAllFrom(json_files, k + 1, AfterFile(load_city_file(json_files[k]), cities.value))

load_all_cities(json_files) == LoadAllFrom(json_files, 1, Returns(<<>>))

(* SpecDirectory: load_all_cities on a directory of JSON files *)

\* most files in the directory
MaxFiles == 3

Torino == <<"T","o","r","i","n","o">>
Noon == <<"n","o","o","n">>

\* a file that is not JSON
InvalidJson == [json |-> "invalid"]

JsonFile(city_data) == [json |-> "valid", data |-> city_data]

\* a city file whose one restriction has the given start_time
CityFileStartingAt(start_time) ==
    JsonFile([name |-> <<"M","i","l","a","n","o">>,
              country |-> Italy,
              zones |-> << [id |-> <<"a","r","e","a","-","c">>,
                            name |-> <<"A","r","e","a"," ","C">>,
                            city |-> <<"M","i","l","a","n","o">>,
                            boundaries |-> <<>>,
                            restrictions |-> << [days |-> Weekdays,
                                                 start_time |-> start_time,
                                                 end_time |-> T2100] >>] >>])

\* two files that load, a file that is not JSON, a file without its zones
\* key, and files whose restriction has a start_time that is no time
DirectoryFiles ==
    { CityFileStartingAt(T0730),
      JsonFile([name |-> Torino, zones |-> <<>>]),
      InvalidJson,
      JsonFile([name |-> Torino]),
      CityFileStartingAt(Noon),
      CityFileStartingAt(<<"2","5",":","0","0">>) }

InitDirectory ==
    /\ directory \in UNION {Tuples(DirectoryFiles, n) : n \in 0..MaxFiles}
    /\ all_cities = NoCall
    /\ InitIdleCore
    /\ InitIdleTurin
    /\ InitIdleObjects
    /\ InitIdleQueries
    /\ InitIdleCity
    /\ InitIdleApi

\* load_all_cities(data_dir)
CallLoadAllCities ==
    /\ all_cities = NoCall
    /\ all_cities' = Of(load_all_cities(directory))
    /\ UNCHANGED <<directory, besidesDirectory>>

NextDirectory == CallLoadAllCities

SpecDirectory == InitDirectory /\ [][NextDirectory]_vars

\* the file holds a city that load_city returns
Loadable(loaded) == loaded.raised = "none" /\ loaded.value.found

\* the cities of the files that can be loaded, from the k-th file on
RECURSIVE LoadableCitiesFrom(_, _)
LoadableCitiesFrom(json_files, k) ==
    IF k > Len(json_files) THEN <<>>
    ELSE IF Loadable(load_city_file(json_files[k]))
         THEN <<load_city_file(json_files[k]).value.city>> \o LoadableCitiesFrom(json_files, k + 1)
         ELSE LoadableCitiesFrom(json_files, k + 1)

\* C25: load_all_cities does not raise and returns a City for every file of
\* the directory that can be loaded; a file that is not JSON, lacks a required
\* key or holds a restriction with a malformed time string is skipped
C25_UnloadableFilesSkipped ==
    all_cities /= NoCall =>
        all_cities[1] = Returns(LoadableCitiesFrom(directory, 1))

-----------------------------------------------------------------------------
(* scrapers/city_specific/turin.py: parse_zones *)

T1030 == <<"1","0",":","3","0">>

\* _get_ztl_info(): the items of each schedule, <<day_range, time_range>>
Turin_get_ztl_info ==
    [Centrale |-> << <<<<"M","o","n","d","a","y","-","F","r","i","d","a","y">>, Join(<<T0730, T1030>>)>> >>,
     Romana |-> << <<EveryDay, Join(<<T2100, T0730>>)>> >>,
     Filiberto |-> << <<EveryDay, Join(<<T1930, T0730>>)>> >>,
     Valentino |-> << <<EveryDay, Join(<<T0000, T2359>>)>> >>]

\* what _parse_restriction makes of the days and the two fields of
\* time_range.split('-'); a split into other than two fields raises
TurinRestrictions(days, fields) ==
    IF days.raised /= "none" THEN days
    ELSE IF Len(fields) /= 2 THEN Raises("ValueError")
    ELSE RestrictionOfTimes(days.value, Restriction_parse_time(fields[1]),
                            Restriction_parse_time(fields[2]), NoArg)

\* _parse_restriction(day_range, time_range): the one restriction of its list
Turin_parse_restriction(range, time_range) ==
    TurinRestrictions(Turin_expand_day_range(range), PySplit(time_range, "-"))

\* a choice that looks for Valentino before Romana
Turin_schedule_valentino_first(name) ==
    IF PyIn(<<"V","a","l","e","n","t","i","n","o">>, name) \/ PyIn(<<"v","a","l","e","n","t","i","n","o">>, name) THEN "Valentino"
    ELSE IF PyIn(<<"R","o","m","a","n","a">>, name) \/ PyIn(<<"r","o","m","a","n","a">>, name) THEN "Romana"
    ELSE "Centrale"

\* the schedule the if/elif/else on the zone name applies
Turin_schedule(name) ==
    IF PyIn(<<"R","o","m","a","n","a">>, name) \/ PyIn(<<"r","o","m","a","n","a">>, name) THEN "Romana"
    ELSE IF PyIn(<<"V","a","l","e","n","t","i","n","o">>, name) \/ PyIn(<<"v","a","l","e","n","t","i","n","o">>, name) THEN "Valentino"
    ELSE "Centrale"

\* for day_range, time_range in items, from the k-th on: each parsed
\* restriction is added to the zone's list; a raise leaves parse_zones
RECURSIVE TurinApply(_, _, _)
TurinApply(items, k, list) ==
    IF k > Len(items) THEN Returns(list)
    ELSE IF Turin_parse_restriction(items[k][1], items[k][2]).raised /= "none"
         THEN Turin_parse_restriction(items[k][1], items[k][2])
    ELSE TurinApply(items, k + 1,
                    Zone_add_restriction(list, Turin_parse_restriction(items[k][1], items[k][2]).value))

\* \d{2}:\d{2} at position i
TwoDigitClockAt(s, i) ==
    /\ IsDigit(CharAt(s, i)) /\ IsDigit(CharAt(s, i + 1))
    /\ CharAt(s, i + 2) = ":"
    /\ IsDigit(CharAt(s, i + 3)) /\ IsDigit(CharAt(s, i + 4))

\* \((\d{2}:\d{2})-(\d{2}:\d{2})\) at position i
TimeInNameAt(s, i) ==
    /\ CharAt(s, i) = "("
    /\ TwoDigitClockAt(s, i + 1)
    /\ CharAt(s, i + 6) = "-"
    /\ TwoDigitClockAt(s, i + 7)
    /\ CharAt(s, i + 12) = ")"

\* the fallback for a zone left without restrictions: the first time range
\* written in the name, on every day
TurinFallback(name, list) ==
    IF list /= <<>> THEN Returns(list)
    ELSE IF ~\E i \in DOMAIN name : TimeInNameAt(name, i) THEN Returns(list)
    ELSE LET i == CHOOSE i \in DOMAIN name :
                      TimeInNameAt(name, i) /\ \A j \in 1..(i - 1) : ~TimeInNameAt(name, j)
             made == Restriction_init(day_order, SubSeq(name, i + 1, i + 5),
                                      SubSeq(name, i + 7, i + 11), NoArg)
         IN  IF made.raised /= "none" THEN made
             ELSE Returns(Zone_add_restriction(list, made.value))

\* the restrictions of the zone with the given name
TurinZoneRestrictions(name, applied) ==
    IF applied.raised /= "none" THEN applied ELSE TurinFallback(name, applied.value)

\* one round of the loop of parse_zones: the Zone made of an item of
\* ztl_coordinates
TurinZone(zone_id, name, boundaries, list) ==
    IF list.raised /= "none" THEN list
    ELSE Returns([id |-> <<"t","u","r","i","n","-","z","t","l","-">> \o zone_id, name |-> name, city |-> Torino,
                  boundaries |-> boundaries, restrictions |-> list.value])

Turin_parse_zone(zone_id, name, boundaries) ==
    TurinZone(zone_id, name, boundaries,
              TurinZoneRestrictions(name,
                  TurinApply(Turin_get_ztl_info[Turin_schedule(name)], 1, Zone_init(NoArg))))

\* zones.append(zone)
TurinAppend(zones, made) ==
    IF made.raised /= "none" THEN made ELSE Returns(Append(zones, made.value))

\* for zone_id, zone_data in self.ztl_coordinates.items(), from the k-th on
RECURSIVE TurinZonesFrom(_, _, _)
TurinZonesFrom(items, k, zones) ==
    IF k > Len(items) THEN zones
    ELSE IF zones.raised /= "none" THEN zones
    ELSE TurinZonesFrom(items, k + 1,
             TurinAppend(zones.value,
                 Turin_parse_zone(items[k].zone_id,
                     DictGet(items[k].zone_data, "name",
                             <<"Z","T","L"," ","T","o","r","i","n","o"," ","-"," ","Z","o","n","e"," ">> \o items[k].zone_id),
                     DictGet(items[k].zone_data, "polygon", <<>>))))

\* parse_zones()
Turin_parse_zones(items) == TurinZonesFrom(items, 1, Returns(<<>>))

(* SpecTurin: parse_zones on the coordinates the scraper loaded *)

\* most zones in ztl_coordinates
MaxTurinZones == 2

\* zone names: those of the tests, names with romana and valentino in lower
\* and upper case, and one with both
TurinNames ==
    { <<"Z","T","L"," ","T","o","r","i","n","o"," ","-"," ","R","o","m","a","n","a"," ","(","2","1",":","0","0","-","0","7",":","3","0",")">>,
      <<"Z","T","L"," ","T","o","r","i","n","o"," ","-"," ","C","e","n","t","r","a","l","e"," ","(","0","7",":","3","0","-","1","0",":","3","0",")">>,
      <<"Z","T","L"," ","T","o","r","i","n","o"," ","-"," ","V","a","l","e","n","t","i","n","o">>,
      <<"Z","T","L"," ","T","o","r","i","n","o"," ","-"," ","C","u","s","t","o","m"," ","Z","o","n","e"," ","(","1","4",":","3","0","-","1","8",":","4","5",")">>,
      <<"P","o","r","t","a"," ","r","o","m","a","n","a">>,
      <<"P","a","r","c","o"," ","d","e","l"," ","v","a","l","e","n","t","i","n","o">>,
      <<"Z","T","L"," ","R","O","M","A","N","A">>,
      <<"V","a","l","e","n","t","i","n","o"," ","-"," ","R","o","m","a","n","a">> }

\* the zone_data of the coordinates file, with and without a name
TurinZoneData ==
    {[name |-> n, polygon |-> << <<76779, 450751>>, <<76780, 450752>> >>] : n \in TurinNames}
    \cup {[center |-> <<76854, 450705>>]}

\* the items of the dict: the keys are "1", "2", ... in order
Keyed(data) == [k \in DOMAIN data |-> [zone_id |-> <<Digits[k + 1]>>, zone_data |-> data[k]]]

InitTurin ==
    /\ ztl_coordinates \in {Keyed(data) : data \in UNION {Tuples(TurinZoneData, n) : n \in 0..MaxTurinZones}}
    /\ turin_zones = NoCall
    /\ InitIdleCore
    /\ InitIdleObjects
    /\ InitIdleQueries
    /\ InitIdleCity
    /\ InitIdleApi
    /\ InitIdleDirectory

\* scraper.parse_zones()
CallTurinParseZones ==
    /\ turin_zones = NoCall
    /\ turin_zones' = Of(Turin_parse_zones(ztl_coordinates))
    /\ UNCHANGED <<ztl_coordinates, besidesTurin>>

NextTurin == CallTurinParseZones

SpecTurin == InitTurin /\ [][NextTurin]_vars

\* the restriction is the one of the given days and window
IsRestriction(r, days, start_hour, start_minute, end_hour, end_minute) ==
    /\ r.days = days
    /\ r.start_time = Clock(start_hour, start_minute)
    /\ r.end_time = Clock(end_hour, end_minute)

\* the zone has exactly one restriction, the one of the schedule named
HasSchedule(zone_arg, schedule) ==
    /\ Len(zone_arg.restrictions) = 1
    /\ schedule = "Romana" => IsRestriction(zone_arg.restrictions[1], day_order, 21, 0, 7, 30)
    /\ schedule = "Valentino" => IsRestriction(zone_arg.restrictions[1], day_order, 0, 0, 23, 59)
    /\ schedule = "Centrale" => IsRestriction(zone_arg.restrictions[1], Weekdays, 7, 30, 10, 30)

ZonesParsed == turin_zones /= NoCall
TheTurinZones == turin_zones[1].value

\* C28 as stated: names containing 'Romana' get the Romana schedule,
\* otherwise names containing 'Valentino' the Valentino schedule, and all
\* other names Monday-Friday 07:30-10:30
C28_Original ==
    ZonesParsed =>
        /\ turin_zones[1].raised = "none"
        /\ \A k \in DOMAIN TheTurinZones :
              HasSchedule(TheTurinZones[k],
                  IF PyIn(<<"R","o","m","a","n","a">>, TheTurinZones[k].name) THEN "Romana"
                  ELSE IF PyIn(<<"V","a","l","e","n","t","i","n","o">>, TheTurinZones[k].name) THEN "Valentino"
                  ELSE "Centrale")

ContainsEither(name, capitalized, lower) == PyIn(capitalized, name) \/ PyIn(lower, name)

\* C28: parse_zones gives every zone exactly one restriction, selected by
\* the zone name alone: names containing 'Romana' or 'romana' get Every day
\* 21:00-07:30, otherwise names containing 'Valentino' or 'valentino' get
\* Every day 00:00-23:59, and all other names get Monday-Friday 07:30-10:30;
\* a time range written in the name is never used
C28_ScheduleByName ==
    ZonesParsed =>
        /\ turin_zones[1].raised = "none"
        /\ Len(TheTurinZones) = Len(ztl_coordinates)
        /\ \A k \in DOMAIN TheTurinZones :
              HasSchedule(TheTurinZones[k],
                  IF ContainsEither(TheTurinZones[k].name, <<"R","o","m","a","n","a">>, <<"r","o","m","a","n","a">>) THEN "Romana"
                  ELSE IF ContainsEither(TheTurinZones[k].name, <<"V","a","l","e","n","t","i","n","o">>, <<"v","a","l","e","n","t","i","n","o">>) THEN "Valentino"
                  ELSE "Centrale")

\* a zone named 'Porta romana' with the Romana schedule, next to a zone with
\* 14:30-18:45 in its name and the Monday-Friday 07:30-10:30 restriction
C28_Witness ==
    /\ ZonesParsed
    /\ Len(TheTurinZones) = 2
    /\ TheTurinZones[1].name = <<"P","o","r","t","a"," ","r","o","m","a","n","a">>
    /\ HasSchedule(TheTurinZones[1], "Romana")
    /\ TheTurinZones[2].name = <<"Z","T","L"," ","T","o","r","i","n","o"," ","-"," ","C","u","s","t","o","m"," ","Z","o","n","e"," ","(","1","4",":","3","0","-","1","8",":","4","5",")">>
    /\ HasSchedule(TheTurinZones[2], "Centrale")

====
